---- MODULE Spec2Model ----
(***************************************************************************)
(* Model of the dataset scraper's DCAT converter (src/app.py): the URL     *)
(* format classifier, the date/year normalizer, the distribution scanners, *)
(* convert_to_dcat_dynamic, dcat_to_turtle and the metadata scan of        *)
(* run_scrapper.  Python strings are TLA+ strings; a character of s is     *)
(* SubSeq(s, i, i).                                                        *)
(***************************************************************************)
EXTENDS Integers, Sequences, FiniteSets, TLC

VARIABLES
    dt_string,      \* argument of the date normalizer call
    dt_pc,          \* position of the date normalizer call
    dt_parsed,      \* what _parse_date_from_metadata returned
    dt_year,        \* what _extract_year_from_string returned
    cf_url,         \* argument of the classifier call
    cf_pc,          \* position of the classifier call
    cf_media,       \* what _guess_media_type_from_url returned
    cf_format,      \* what _uppercase_ext_from_url returned
    result_json,    \* convert_to_dcat_dynamic: the raw scrape result
    url,            \* convert_to_dcat_dynamic: the page URL
    soup,           \* convert_to_dcat_dynamic: the markup tree, or no tree
    site_hint,      \* the site_hint argument, then the variant it resolves to
    pc,             \* position of the convert_to_dcat_dynamic call
    title,          \* locals of convert_to_dcat_dynamic
    desc,
    publisher_name,
    issued,
    modified,
    license_val,
    distributions,
    found,          \* the dictionary of _extract_distributions_from_soup
    scan_i,         \* index of the next element of the running scan loop
    dcat,           \* the record returned
    ttl,            \* the lines dcat_to_turtle returned
    \* a request: run_scrapper's metadata scan, then the variant of the conversion
    rs_url,         \* the url field of the request
    rs_hint,        \* the site_hint field of the request
    rs_page,        \* what the scanners find in the page
    rs_pc,
    source,         \* the strategy of line 503
    rs_pass,        \* the running pass of the strategy
    rs_calls,       \* the try_set_meta calls of the running pass
    rs_i,           \* index of its next call
    metadata_dict,
    rs_result,      \* result_json as lines 666-668 leave it
    rs_site,        \* the variant convert_to_dcat_dynamic resolves
    \* a conversion called again with the arguments of the first call
    calls,          \* the calls begun
    first_dcat      \* the record the first call returned

dateVars == <<dt_string, dt_pc, dt_parsed, dt_year>>
classVars == <<cf_url, cf_pc, cf_media, cf_format>>
inputVars == <<result_json, url, soup>>
fieldVars == <<site_hint, title, desc, publisher_name, issued, modified, license_val>>
scanVars == <<distributions, found, scan_i>>
convertVars == <<inputVars, fieldVars, scanVars, pc, dcat, ttl>>
scrapeVars == <<rs_url, rs_hint, rs_page, rs_pc, source, rs_pass, rs_calls, rs_i,
                metadata_dict, rs_result, rs_site>>
repeatVars == <<calls, first_dcat>>
restVars == <<scrapeVars, repeatVars>>
vars == <<dateVars, classVars, convertVars, restVars>>

-----------------------------------------------------------------------------
(* Python values *)

\* Python's None, kept apart from every string the inputs contain.
None == "<None>"
\* The result of a call that raised TypeError.
TypeError == "<TypeError>"
\* A result variable before its call has returned.
NotCalled == "<not called>"

\* bool(v) of an optional string.
Truthy(v) == v # None /\ v # ""

-----------------------------------------------------------------------------
(* Characters and strings *)

Char(s, i) == SubSeq(s, i, i)

CharsOf(s) == {Char(s, i) : i \in 1..Len(s)}

Digits == "0123456789"
Lowers == "abcdefghijklmnopqrstuvwxyz"
Uppers == "ABCDEFGHIJKLMNOPQRSTUVWXYZ"

\* The characters of the inputs in code point order (Python compares strings
\* by code point).
Ascii == " \"#&'-./" \o Digits \o ":<>?" \o Uppers \o "\\_" \o Lowers

IndexIn(s, c) == CHOOSE i \in 1..Len(s) : Char(s, i) = c

\* ord(c), up to the gaps between the characters of the inputs
OrdTable == [c \in CharsOf(Ascii) |-> IndexIn(Ascii, c)]
Ord(c) == OrdTable[c]

DigitChars == CharsOf(Digits)
DigitTable == [c \in DigitChars |-> IndexIn(Digits, c) - 1]
AlnumChars == CharsOf(Digits) \cup CharsOf(Lowers) \cup CharsOf(Uppers)

IsDigit(c) == c \in DigitChars
\* [a-zA-Z0-9]
IsAlnum(c) == c \in AlnumChars
\* \w
IsWord(c) == IsAlnum(c) \/ c = "_"
\* \s
IsSpace(c) == c = " "

UpperTable == [c \in CharsOf(Lowers) |-> Char(Uppers, IndexIn(Lowers, c))]
LowerTable == [c \in CharsOf(Uppers) |-> Char(Lowers, IndexIn(Uppers, c))]
UpperChar(c) == IF c \in DOMAIN UpperTable THEN UpperTable[c] ELSE c
LowerChar(c) == IF c \in DOMAIN LowerTable THEN LowerTable[c] ELSE c

RECURSIVE MapChars(_, _, _)
MapChars(s, i, up) ==
    IF i > Len(s) THEN ""
    ELSE (IF up THEN UpperChar(Char(s, i)) ELSE LowerChar(Char(s, i))) \o MapChars(s, i + 1, up)

\* str.upper() and str.lower()
Upper(s) == MapChars(s, 1, TRUE)
Lower(s) == MapChars(s, 1, FALSE)

\* s[i:] starts with lit (1-based i)
StartsWithAt(s, i, lit) ==
    /\ i + Len(lit) - 1 <= Len(s)
    /\ SubSeq(s, i, i + Len(lit) - 1) = lit

\* lit in s
Contains(s, lit) == \E i \in 1..(Len(s) + 1) : StartsWithAt(s, i, lit)

\* The position after the longest run of digits, of alphanumeric characters
\* and of white space from i, and the position before the run of white space
\* that ends at j.
RECURSIVE DigitRunEnd(_, _)
DigitRunEnd(s, i) ==
    IF i <= Len(s) /\ IsDigit(Char(s, i)) THEN DigitRunEnd(s, i + 1) ELSE i

RECURSIVE AlnumRunEnd(_, _)
AlnumRunEnd(s, i) ==
    IF i <= Len(s) /\ IsAlnum(Char(s, i)) THEN AlnumRunEnd(s, i + 1) ELSE i

RECURSIVE SpaceRunEnd(_, _)
SpaceRunEnd(s, i) ==
    IF i <= Len(s) /\ IsSpace(Char(s, i)) THEN SpaceRunEnd(s, i + 1) ELSE i

RECURSIVE SpaceRunStart(_, _)
SpaceRunStart(s, j) ==
    IF j >= 1 /\ IsSpace(Char(s, j)) THEN SpaceRunStart(s, j - 1) ELSE j

\* str.strip()
Strip(s) == SubSeq(s, SpaceRunEnd(s, 1), SpaceRunStart(s, Len(s)))

\* int(s) of a digit string
RECURSIVE ToInt(_)
ToInt(s) ==
    IF s = "" THEN 0
    ELSE 10 * ToInt(SubSeq(s, 1, Len(s) - 1)) + DigitTable[Char(s, Len(s))]

\* str(n) of a natural number
RECURSIVE ToStr(_)
ToStr(n) ==
    IF n < 10 THEN Char(Digits, n + 1)
    ELSE ToStr(n \div 10) \o Char(Digits, (n % 10) + 1)

\* f"{n:02d}"
Pad2(n) == IF n < 10 THEN "0" \o ToStr(n) ELSE ToStr(n)

\* a < b for Python strings
RECURSIVE StrLess(_, _)
StrLess(a, b) ==
    IF b = "" THEN FALSE
    ELSE IF a = "" THEN TRUE
    ELSE IF Char(a, 1) = Char(b, 1) THEN StrLess(SubSeq(a, 2, Len(a)), SubSeq(b, 2, Len(b)))
    ELSE Ord(Char(a, 1)) < Ord(Char(b, 1))

-----------------------------------------------------------------------------
(* URL & format classifier *)

EXT_MEDIA ==
    [ zip |-> "application/zip",
      csv |-> "text/csv",
      json |-> "application/json",
      geojson |-> "application/geo+json",
      xml |-> "application/xml",
      xlsx |-> "application/vnd.openxmlformats-officedocument.spreadsheetml.sheet",
      xls |-> "application/vnd.ms-excel",
      parquet |-> "application/octet-stream",
      html |-> "text/html",
      htm |-> "text/html",
      txt |-> "text/plain",
      tgz |-> "application/gzip",
      gz |-> "application/gzip",
      tar |-> "application/x-tar" ]

\* dict.get(key, default)
ExtMediaGet(ext, default) == IF ext \in DOMAIN EXT_MEDIA THEN EXT_MEDIA[ext] ELSE default

\* The positions where \.([a-zA-Z0-9]+)(?:$|\?) matches in u: a dot, the
\* longest alphanumeric run after it (a shorter run is followed by an
\* alphanumeric, never by the end or a "?"), then the end of u or a "?".
ExtMatchesAt(u, i) ==
    /\ Char(u, i) = "."
    /\ AlnumRunEnd(u, i + 1) > i + 1
    /\ \/ AlnumRunEnd(u, i + 1) > Len(u)
       \/ Char(u, AlnumRunEnd(u, i + 1)) = "?"

\* re.search(r"\.([a-zA-Z0-9]+)(?:$|\?)", u).group(1): the leftmost match,
\* None when there is none.
ExtSearch(u) ==
    LET hits == {i \in 1..Len(u) : ExtMatchesAt(u, i)}
    IN  IF hits = {} THEN None
        ELSE LET i == CHOOSE h \in hits : \A k \in hits : h <= k
             IN  SubSeq(u, i + 1, AlnumRunEnd(u, i + 1) - 1)

guess_media_type_from_url(u) ==
    LET ext == ExtSearch(u)
    IN  IF ~Truthy(u) THEN "text/html"
        ELSE IF ext # None THEN ExtMediaGet(Lower(ext), "application/octet-stream")
        ELSE "text/html"

\* re.search raises TypeError on None: the function has no guard for it.
uppercase_ext_from_url(u) ==
    LET ext == ExtSearch(u)
    IN  IF u = None THEN TypeError
        ELSE IF ext # None THEN Upper(ext) ELSE "HTML"

-----------------------------------------------------------------------------
(* Date/year normalizer *)

\* yy <= 25 is a year of this century (line 62).
PivotYear == 25
\* The formats of _parse_date_from_metadata in the order they are tried, as
\* directives and literal characters.
patterns ==
    << <<"%d", "/", "%m", "/", "%Y", " ", "%H", ":", "%M", ":", "%S">>,
       <<"%d", "/", "%m", "/", "%y", " ", "%H", ":", "%M", ":", "%S">>,
       <<"%d", "/", "%m", "/", "%Y">>,
       <<"%d", "/", "%m", "/", "%y">>,
       <<"%Y", "-", "%m", "-", "%d">>,
       <<"%Y", "/", "%m", "/", "%d">>,
       <<"%d", "-", "%m", "-", "%Y">>,
       <<"%d", "-", "%m", "-", "%y">>,
       <<"%Y">> >>

Directives == {"%d", "%m", "%Y", "%y", "%H", "%M", "%S"}

\* The digit counts and the values the regular expression of a directive
\* accepts (strptime builds one regular expression per format).
DirectiveWidths(dv) ==
    CASE dv = "%Y" -> {4}
      [] dv = "%y" -> {2}
      [] OTHER -> {1, 2}

DirectiveValues(dv) ==
    CASE dv = "%d" -> 1..31
      [] dv = "%m" -> 1..12
      [] dv = "%Y" -> 0..9999
      [] dv = "%y" -> 0..99
      [] dv = "%H" -> 0..23
      [] dv = "%M" -> 0..59
      [] dv = "%S" -> 0..61

IsLeap(y) == (y % 4 = 0 /\ y % 100 # 0) \/ y % 400 = 0

DaysInMonth(y, m) ==
    IF m = 2 THEN (IF IsLeap(y) THEN 29 ELSE 28)
    ELSE IF m \in {4, 6, 9, 11} THEN 30 ELSE 31

\* strptime's century rule for %y: 00-68 are years of this century, 69-99 of
\* the last one.
CenturyOf(yy) == IF yy <= 68 THEN 2000 + yy ELSE 1900 + yy

NoMatch == [ok |-> FALSE]

\* Match fmt[k..] against s[i..], the fields read so far in f.  Every
\* directive of the formats above is followed by a literal or by the end, so
\* the digits a directive takes are the whole run of digits at i.  %d also
\* takes a space and one digit 1-9; a space of the format takes \s+.
RECURSIVE MatchFormat(_, _, _, _, _)
MatchFormat(s, i, fmt, k, f) ==
    IF k > Len(fmt) THEN (IF i > Len(s) THEN f ELSE NoMatch)
    ELSE IF fmt[k] \in Directives THEN
        LET e == DigitRunEnd(s, i)
            n == ToInt(SubSeq(s, i, e - 1))
            key == Char(fmt[k], 2)
        IN  IF /\ fmt[k] = "%d"
               /\ i + 1 <= Len(s)
               /\ Char(s, i) = " "
               /\ IsDigit(Char(s, i + 1))
               /\ Char(s, i + 1) # "0"
            THEN MatchFormat(s, i + 2, fmt, k + 1,
                             [f EXCEPT ![key] = ToInt(Char(s, i + 1))])
            ELSE IF (e - i) \in DirectiveWidths(fmt[k]) /\ n \in DirectiveValues(fmt[k])
            THEN MatchFormat(s, e, fmt, k + 1,
                             [f EXCEPT ![key] = IF key = "y" THEN CenturyOf(n) ELSE n])
            ELSE NoMatch
    ELSE IF fmt[k] = " " THEN
        IF SpaceRunEnd(s, i) > i THEN MatchFormat(s, SpaceRunEnd(s, i), fmt, k + 1, f)
        ELSE NoMatch
    ELSE IF i <= Len(s) /\ Char(s, i) = fmt[k] THEN MatchFormat(s, i + 1, fmt, k + 1, f)
    ELSE NoMatch

\* datetime.strptime(s, fmt): the date, or NoMatch when it raises ValueError
\* (no match, text left over, or no such calendar date or time).
Strptime(s, fmt) ==
    LET f == MatchFormat(s, 1, fmt, 1,
                         [ok |-> TRUE, Y |-> 1900, y |-> 0, m |-> 1, d |-> 1,
                          H |-> 0, M |-> 0, S |-> 0])
        year == IF "%y" \in {fmt[k] : k \in 1..Len(fmt)} THEN f.y ELSE f.Y
    IN  IF ~f.ok THEN NoMatch
        ELSE IF year < 1 \/ f.d > DaysInMonth(year, f.m) \/ f.S > 59 THEN NoMatch
        ELSE [ok |-> TRUE, year |-> year, month |-> f.m, day |-> f.d]

\* parsed.strftime("%Y-%m-%d") if "%d" in fmt else parsed.strftime("%Y")
Strftime(parsed, fmt) ==
    IF "%d" \in {fmt[k] : k \in 1..Len(fmt)}
    THEN ToStr(parsed.year) \o "-" \o Pad2(parsed.month) \o "-" \o Pad2(parsed.day)
    ELSE ToStr(parsed.year)

\* re.search(r"(20\d{2})", s): the start of the leftmost match, 0 for none.
Search20(s) ==
    LET hits == {i \in 1..Len(s) :
                    /\ StartsWithAt(s, i, "20")
                    /\ i + 3 <= Len(s)
                    /\ IsDigit(Char(s, i + 2))
                    /\ IsDigit(Char(s, i + 3))}
    IN  IF hits = {} THEN 0 ELSE CHOOSE h \in hits : \A k \in hits : h <= k

\* re.search(r"\b(\d{2})\b", s): the start of the leftmost match, 0 for none.
SearchTwoDigits(s) ==
    LET hits == {i \in 1..Len(s) :
                    /\ i + 1 <= Len(s)
                    /\ IsDigit(Char(s, i))
                    /\ IsDigit(Char(s, i + 1))
                    /\ (i = 1 \/ ~IsWord(Char(s, i - 1)))
                    /\ (i + 1 = Len(s) \/ ~IsWord(Char(s, i + 2)))}
    IN  IF hits = {} THEN 0 ELSE CHOOSE h \in hits : \A k \in hits : h <= k

extract_year_from_string(s) ==
    LET m == Search20(s)
        m2 == SearchTwoDigits(s)
        yy == ToInt(SubSeq(s, m2, m2 + 1))
    IN  IF ~Truthy(s) THEN None
        ELSE IF m # 0 THEN SubSeq(s, m, m + 3)
        ELSE IF m2 # 0 THEN (IF yy <= PivotYear THEN "20" \o Pad2(yy) ELSE "19" \o Pad2(yy))
        ELSE None

\* The loop over the formats from the k-th on, then the fallback.
RECURSIVE TryPatterns(_, _)
TryPatterns(s, k) ==
    IF k > Len(patterns) THEN extract_year_from_string(s)
    ELSE LET parsed == Strptime(s, patterns[k])
         IN  IF parsed.ok THEN Strftime(parsed, patterns[k]) ELSE TryPatterns(s, k + 1)

parse_date_from_metadata(dt) ==
    IF ~Truthy(dt) THEN None ELSE TryPatterns(Strip(dt), 1)

-----------------------------------------------------------------------------
(* Calls of the date normalizer *)

Days == {"01", "15", "31"}
Months == {"01", "02", "3"}
TwoDigitYears == {"00", "24", "25", "26", "50", "68", "69", "99"}
FourDigitYears == {"2023", "1999"}

\* Day, month and year in the orders and with the separators of the formats,
\* and texts that match no format.
DateStrings ==
    {d \o sep \o m \o sep \o y :
        d \in Days, m \in Months, sep \in {"/", "-"}, y \in TwoDigitYears \cup FourDigitYears}
    \cup {y \o sep \o "03" \o sep \o d : y \in FourDigitYears, sep \in {"/", "-"}, d \in {"15", " 5"}}
    \cup {"15/03/2023 10:30:00", "15/03/50 10:30:00", " 01/01/24 ", "01/01/50  23:59:59",
          "15/03/24 10:30:60", "2023", "50", "24", "random text", "", None,
          "01.01.50", "Jan 50", "FY 2019-20", "1999-2000", "since 98", "x50", "120231"}

DateInit ==
    /\ dt_string \in DateStrings
    /\ dt_pc = "parse"
    /\ dt_parsed = NotCalled
    /\ dt_year = NotCalled

\* normalizeDate: _parse_date_from_metadata(dt_string)
ParseDate ==
    /\ dt_pc = "parse"
    /\ dt_parsed' = parse_date_from_metadata(dt_string)
    /\ dt_pc' = "year"
    /\ UNCHANGED <<dt_string, dt_year>>

\* extractYear: _extract_year_from_string(dt_string)
ExtractYear ==
    /\ dt_pc = "year"
    /\ dt_year' = extract_year_from_string(dt_string)
    /\ dt_pc' = "done"
    /\ UNCHANGED <<dt_string, dt_parsed>>

-----------------------------------------------------------------------------
(* Calls of the classifier *)

Hosts == {"https://x.org", "https://www.kaggle.com", "http://data.gov.in", "https://aikosh.indiaai.gov.in"}
Paths == {"", "/", "/d", "/d.csv", "/d.CSV", "/files/d.zip?x=1", "/d.tar.gz", "/v1.2/d",
          "/d.geojson", "/d.pdf", "/d.html", "/a.b/c.xlsx", "/d.csv#top", "/d?f=a.json"}

ClassifierUrls == {h \o p : h \in Hosts, p \in Paths} \cup {"", None}

ClassInit ==
    /\ cf_url \in ClassifierUrls
    /\ cf_pc = "media"
    /\ cf_media = NotCalled
    /\ cf_format = NotCalled

\* "dcat:mediaType": _guess_media_type_from_url(url)
GuessMediaType ==
    /\ cf_pc = "media"
    /\ cf_media' = guess_media_type_from_url(cf_url)
    /\ cf_pc' = "format"
    /\ UNCHANGED <<cf_url, cf_format>>

\* "dct:format": _uppercase_ext_from_url(url); a TypeError ends the call.
UppercaseExt ==
    /\ cf_pc = "format"
    /\ cf_format' = uppercase_ext_from_url(cf_url)
    /\ cf_pc' = IF uppercase_ext_from_url(cf_url) = TypeError THEN "raised" ELSE "done"
    /\ UNCHANGED <<cf_url, cf_media>>

-----------------------------------------------------------------------------
(* URLs *)

\* The first position from i on where s has one of the characters cs, or
\* Len(s) + 1.
RECURSIVE FindAny(_, _, _)
FindAny(s, i, cs) ==
    IF i > Len(s) \/ Char(s, i) \in cs THEN i ELSE FindAny(s, i + 1, cs)

\* The last position of c in s up to j, or 0.
RECURSIVE RFind(_, _, _)
RFind(s, j, c) ==
    IF j < 1 THEN 0 ELSE IF Char(s, j) = c THEN j ELSE RFind(s, j - 1, c)

IsAbsoluteUrl(h) == StartsWithAt(h, 1, "http://") \/ StartsWithAt(h, 1, "https://")

\* The position after scheme://netloc in an absolute URL.
AuthorityEnd(b) == FindAny(b, IndexIn(b, ":") + 3, {"/", "?", "#"})

\* urlparse(u).hostname of an absolute URL without port or user: the netloc
\* in lower case; None when there is no URL.
Hostname(u) ==
    IF ~Truthy(u) \/ ~IsAbsoluteUrl(u) THEN None
    ELSE Lower(SubSeq(u, IndexIn(u, ":") + 3, AuthorityEnd(u) - 1))

\* urljoin(base, href) for the references of the pages: an absolute
\* reference stands, an empty one is the base, "/path" replaces the path of
\* the base, and "name" replaces the last segment of the base's path (the
\* query and fragment of the base are dropped).
urljoin(base, href) ==
    IF ~Truthy(base) THEN href
    ELSE IF href = "" THEN base
    ELSE IF IsAbsoluteUrl(href) THEN href
    ELSE LET ae == AuthorityEnd(base)
             pe == FindAny(base, ae, {"?", "#"})
             authority == SubSeq(base, 1, ae - 1)
             path == SubSeq(base, ae, pe - 1)
         IN  IF Char(href, 1) = "/" THEN authority \o href
             ELSE IF path = "" THEN authority \o "/" \o href
             ELSE authority \o SubSeq(path, 1, RFind(path, Len(path), "/")) \o href

-----------------------------------------------------------------------------
(* The markup tree *)

\* An element without attributes.
NoAttrs == [a \in {} |-> ""]

\* An element: its tag, class attribute, other attributes, text
\* (get_text(strip=True) of an anchor, .string of a script) and the
\* elements inside it.
Element(tag, class, attrs, text, children) ==
    [tag |-> tag, class |-> class, attrs |-> attrs, text |-> text, children |-> children]

Leaf(tag, class, attrs, text) == Element(tag, class, attrs, text, <<>>)

\* el.has_attr(name) and el[name]
HasAttr(el, name) == name \in DOMAIN el.attrs

\* A parsed page, and soup=None.
Soup(body) == [none |-> FALSE, body |-> body]
NoSoup == [none |-> TRUE, body |-> <<>>]

\* The top-level elements in document order, each followed by the elements
\* inside it.
RECURSIVE DocumentOrder(_)
DocumentOrder(body) ==
    IF body = <<>> THEN <<>>
    ELSE <<Head(body)>> \o Head(body).children \o DocumentOrder(Tail(body))

\* soup.find_all(True)
find_all(tree) == DocumentOrder(tree.body)

RECURSIVE SelectAnchors(_)
SelectAnchors(seq) ==
    IF seq = <<>> THEN <<>>
    ELSE (IF Head(seq).tag = "a" /\ HasAttr(Head(seq), "href") THEN <<Head(seq)>> ELSE <<>>)
         \o SelectAnchors(Tail(seq))

RECURSIVE SelectScripts(_)
SelectScripts(seq) ==
    IF seq = <<>> THEN <<>>
    ELSE (IF Head(seq).tag = "script" THEN <<Head(seq)>> ELSE <<>>)
         \o SelectScripts(Tail(seq))

\* soup.find_all("a", href=True) and soup.find_all("script")
find_all_a(tree) == SelectAnchors(find_all(tree))
find_all_script(tree) == SelectScripts(find_all(tree))

\* re.compile(r"(a|b|...)", re.I).search(class): one of the words is in it.
ClassMatches(class, words) == \E w \in words : Contains(Lower(class), w)

-----------------------------------------------------------------------------
(* Distribution records *)

\* {"dcat:accessURL": ..., "dcat:mediaType": ..., "dct:format": ...} and the
\* same with "dct:title" when the anchor has text.
Dist(access, media, fmt) ==
    [x \in {"dcat:accessURL", "dcat:mediaType", "dct:format"} |->
        CASE x = "dcat:accessURL" -> access
          [] x = "dcat:mediaType" -> media
          [] x = "dct:format" -> fmt]

WithTitle(d, text) ==
    IF text = "" THEN d
    ELSE [x \in DOMAIN d \cup {"dct:title"} |-> IF x = "dct:title" THEN text ELSE d[x]]

\* d.get(key): None for a missing key.
Get(d, key) == IF key \in DOMAIN d THEN d[key] ELSE None

\* The list without later entries whose access URL an earlier entry has
\* (the seen/out loops of lines 188-195, 256-263 and 431-437).
RECURSIVE DedupByUrl(_, _)
DedupByUrl(dists, seen) ==
    IF dists = <<>> THEN <<>>
    ELSE LET u == Get(Head(dists), "dcat:accessURL")
         IN  IF Truthy(u) /\ u \notin seen
             THEN <<Head(dists)>> \o DedupByUrl(Tail(dists), seen \cup {u})
             ELSE DedupByUrl(Tail(dists), seen)

-----------------------------------------------------------------------------
(* Generic distribution scan: _extract_distributions_from_soup *)

\* The default extension list of the scan, in the order of the alternation.
exts == <<"csv", "zip", "json", "geojson", "xlsx", "xls", "parquet", "xml", "tgz", "tar", "gz">>

\* The characters before and after a match that the script scan searches
\* for a URL.
SnippetWindow == 100

Min(a, b) == IF a < b THEN a ELSE b
Max(a, b) == IF a > b THEN a ELSE b

\* The extensions of es with which \.(e1|e2|...)(?:T) matches s at i, where
\* T is the end of s or one of the characters ends; any is TRUE for a
\* pattern without (?:T).  Case is ignored.
ExtsAt(s, i, es, ends, any) ==
    IF Char(s, i) # "." THEN {}
    ELSE {k \in 1..Len(es) :
            /\ i + Len(es[k]) <= Len(s)
            /\ Lower(SubSeq(s, i + 1, i + Len(es[k]))) = es[k]
            /\ \/ any
               \/ i + Len(es[k]) = Len(s)
               \/ Char(s, i + Len(es[k]) + 1) \in ends}

FirstOf(S) == CHOOSE k \in S : \A j \in S : k <= j

\* ext_pattern.search(s): [at |-> position of the dot, ext |-> group(1),
\* last |-> position of the last character matched], at = 0 for no match.
ExtPatternFrom(s, from) ==
    LET hits == {i \in from..Len(s) : ExtsAt(s, i, exts, {"?", "#"}, FALSE) # {}}
    IN  IF hits = {} THEN [at |-> 0, ext |-> "", last |-> 0]
        ELSE LET i == FirstOf(hits)
                 e == exts[FirstOf(ExtsAt(s, i, exts, {"?", "#"}, FALSE))]
             IN  [at |-> i, ext |-> e,
                  last |-> IF i + Len(e) = Len(s) THEN i + Len(e) ELSE i + Len(e) + 1]

ext_pattern_search(s) == ExtPatternFrom(s, 1)

\* found[key] = value
Put(acc, key, value) ==
    [x \in DOMAIN acc \cup {key} |-> IF x = key THEN value ELSE acc[x]]

\* found.setdefault(key, value)
SetDefault(acc, key, value) == IF key \in DOMAIN acc THEN acc ELSE Put(acc, key, value)

\* The distribution the anchor and attribute loops record for full.
ScannedDist(full, ext) ==
    Dist(full, ExtMediaGet(ext, guess_media_type_from_url(full)), Upper(ext))

\* One pass of the loop over soup.find_all("a", href=True): the entry of
\* the resolved URL is assigned, whatever it held.
AnchorStep(acc, a, base_url) ==
    LET href == Strip(a.attrs["href"])
        full == urljoin(base_url, href)
        m == ext_pattern_search(full)
    IN  IF href = "" \/ m.at = 0 THEN acc
        ELSE Put(acc, full, WithTitle(ScannedDist(full, m.ext), a.text))

data_attrs == <<"data-download", "data-href", "data-url", "data-resource", "data-link">>

\* The inner loop over the download-hint attributes of one element, from
\* the k-th attribute on; the entry is assigned without a title.
RECURSIVE AttrLoop(_, _, _, _)
AttrLoop(acc, tag, base_url, k) ==
    IF k > Len(data_attrs) THEN acc
    ELSE IF HasAttr(tag, data_attrs[k]) /\ tag.attrs[data_attrs[k]] # ""
         THEN LET full == urljoin(base_url, tag.attrs[data_attrs[k]])
                  m == ext_pattern_search(full)
              IN  AttrLoop(IF m.at = 0 THEN acc ELSE Put(acc, full, ScannedDist(full, m.ext)),
                           tag, base_url, k + 1)
         ELSE AttrLoop(acc, tag, base_url, k + 1)

\* One pass of the loop over soup.find_all(True).
AttrStep(acc, tag, base_url) == AttrLoop(acc, tag, base_url, 1)

\* Characters that end a URL in script text: [\s'"<>]
UrlStops == {" ", "'", "\"", "<", ">"}

\* re.search(r"https?://[^\s'\"<>]+", sn).group(0), None for no match.
UrlLikeSearch(sn) ==
    LET bodyAt(i) == IF StartsWithAt(sn, i, "http://") THEN i + 7
                     ELSE IF StartsWithAt(sn, i, "https://") THEN i + 8 ELSE 0
        hits == {i \in 1..Len(sn) : bodyAt(i) # 0 /\ FindAny(sn, bodyAt(i), UrlStops) > bodyAt(i)}
    IN  IF hits = {} THEN None
        ELSE SubSeq(sn, FirstOf(hits), FindAny(sn, bodyAt(FirstOf(hits)), UrlStops) - 1)

\* The loop over ext_pattern.finditer(text) from position from on: the first
\* URL of the window around each match is recorded unless it has an entry.
RECURSIVE ScriptMatches(_, _, _)
ScriptMatches(acc, text, from) ==
    LET m == ExtPatternFrom(text, from)
    IN  IF from > Len(text) \/ m.at = 0 THEN acc
        ELSE LET snippet == SubSeq(text, Max(1, m.at - SnippetWindow),
                                   Min(Len(text), m.last + SnippetWindow))
                 full == UrlLikeSearch(snippet)
             IN  ScriptMatches(
                     IF full = None THEN acc
                     ELSE SetDefault(acc, full,
                                     Dist(full, guess_media_type_from_url(full),
                                          uppercase_ext_from_url(full))),
                     text, m.last + 1)

\* One pass of the loop over soup.find_all("script").
ScriptStep(acc, script) == ScriptMatches(acc, script.text, 1)

\* SortedKeys with the comparison turned round: the keys in descending order.
RECURSIVE DescendingKeys(_)
DescendingKeys(S) ==
    IF S = {} THEN <<>>
    ELSE LET greatest == CHOOSE k \in S : \A j \in S : k = j \/ StrLess(j, k)
         IN  <<greatest>> \o DescendingKeys(S \ {greatest})

\* The keys of found in ascending order: sorted(found.keys())
RECURSIVE SortedKeys(_)
SortedKeys(S) ==
    IF S = {} THEN <<>>
    ELSE LET least == CHOOSE k \in S : \A j \in S : k = j \/ StrLess(k, j)
         IN  <<least>> \o SortedKeys(S \ {least})

\* FinishScan without lines 158-163: nothing is put in for a page on which
\* nothing was found.
FinishScanWithoutFallback(acc, base_url) ==
    [i \in 1..Len(SortedKeys(DOMAIN acc)) |-> acc[SortedKeys(DOMAIN acc)[i]]]

\* Lines 158-164: the page itself when nothing was found, then the entries
\* in the order of their keys.
FinishScan(acc, base_url) ==
    LET all == IF DOMAIN acc = {}
               THEN Put(acc, base_url, Dist(base_url, "text/html", "HTML"))
               ELSE acc
        keys == SortedKeys(DOMAIN all)
    IN  [i \in 1..Len(keys) |-> all[keys[i]]]

-----------------------------------------------------------------------------
(* Site-specific scans *)

\* The distribution the site-specific scans build for a resolved URL.
GuessedDist(full) ==
    Dist(full, guess_media_type_from_url(full), uppercase_ext_from_url(full))

\* The anchors with href among els, each as a distribution with its text as
\* title (lines 171-178 and 231-238).
RECURSIVE AnchorDists(_, _)
AnchorDists(els, base_url) ==
    IF els = <<>> THEN <<>>
    ELSE (IF Head(els).tag = "a" /\ HasAttr(Head(els), "href")
          THEN <<WithTitle(GuessedDist(urljoin(base_url, Strip(Head(els).attrs["href"]))),
                           Head(els).text)>>
          ELSE <<>>)
         \o AnchorDists(Tail(els), base_url)

\* For each element of els with a matching class (and one of the tags, when
\* tags are given), the anchors inside it.
RECURSIVE ContainerAnchors(_, _, _, _)
ContainerAnchors(els, tags, words, base_url) ==
    IF els = <<>> THEN <<>>
    ELSE (IF (tags = {} \/ Head(els).tag \in tags) /\ ClassMatches(Head(els).class, words)
          THEN AnchorDists(Head(els).children, base_url)
          ELSE <<>>)
         \o ContainerAnchors(Tail(els), tags, words, base_url)

aikosh_attrs == <<"href", "data-download", "data-url", "data-href">>

\* Lines 180-187: the attributes of one element, from the k-th on.
RECURSIVE AikoshAttrDists(_, _, _)
AikoshAttrDists(el, base_url, k) ==
    IF k > Len(aikosh_attrs) THEN <<>>
    ELSE (IF HasAttr(el, aikosh_attrs[k])
          THEN <<GuessedDist(urljoin(base_url, el.attrs[aikosh_attrs[k]]))>>
          ELSE <<>>)
         \o AikoshAttrDists(el, base_url, k + 1)

\* Lines 179-187: the elements with a matching class.
RECURSIVE AikoshElementDists(_, _)
AikoshElementDists(els, base_url) ==
    IF els = <<>> THEN <<>>
    ELSE (IF ClassMatches(Head(els).class, {"dataset-metadata", "download", "resource"})
          THEN AikoshAttrDists(Head(els), base_url, 1)
          ELSE <<>>)
         \o AikoshElementDists(Tail(els), base_url)

extract_aikosh_specific(tree, base_url) ==
    IF tree.none THEN <<>>
    ELSE DedupByUrl(
             ContainerAnchors(find_all(tree), {"section", "div"},
                              {"resource", "download", "files", "dataset"}, base_url)
             \o AikoshElementDists(find_all(tree), base_url),
             {})

\* The extensions of the kaggle patterns, in the order of the alternation.
kaggle_exts == <<"csv", "zip", "json", "xlsx", "parquet", "geojson">>

\* [^'\"\\s<>]: the characters that end the optional query of the pattern
\* (a quote, a backslash, the letter s, an angle bracket).
QueryStops == {"'", "\"", "\\", "s", "<", ">"}

\* The match of https?://[^\s'\"<>]+\.(csv|...) that starts at i, followed
\* by (?:\?[^'\"\\s<>]*)? when query: the greedy run gives way to the last
\* dot of the run that an extension follows.  last = 0 for no match at i.
FileUrlAt(text, i, query) ==
    LET b == IF StartsWithAt(text, i, "http://") THEN i + 7
             ELSE IF StartsWithAt(text, i, "https://") THEN i + 8 ELSE 0
        e == FindAny(text, b, UrlStops)
        dots == {j \in (b + 1)..(e - 1) : ExtsAt(text, j, kaggle_exts, {}, TRUE) # {}}
        j == CHOOSE d \in dots : \A x \in dots : x <= d
        k == j + Len(kaggle_exts[FirstOf(ExtsAt(text, j, kaggle_exts, {}, TRUE))])
    IN  IF b = 0 \/ dots = {} THEN 0
        ELSE IF query /\ k + 1 <= Len(text) /\ Char(text, k + 1) = "?"
             THEN FindAny(text, k + 2, QueryStops) - 1
             ELSE k

\* re.finditer of that pattern from position from on: the matched texts in
\* order.
RECURSIVE FileUrlMatches(_, _, _)
FileUrlMatches(text, from, query) ==
    LET hits == {i \in from..Len(text) : FileUrlAt(text, i, query) # 0}
    IN  IF hits = {} THEN <<>>
        ELSE <<SubSeq(text, FirstOf(hits), FileUrlAt(text, FirstOf(hits), query))>>
             \o FileUrlMatches(text, FileUrlAt(text, FirstOf(hits), query) + 1, query)

\* The match of "key"\s*:\s*"([^"]+)" at i, case ignored:
\* [from, to] are the positions of group(1), last that of the closing quote;
\* last = 0 for no match at i.
KeyValueAt(text, i, key) ==
    LET q1 == i + Len(key) + 1
        c == SpaceRunEnd(text, q1 + 1)
        q2 == SpaceRunEnd(text, c + 1)
        e == FindAny(text, q2 + 1, {"\""})
    IN  IF /\ Char(text, i) = "\""
           /\ q1 <= Len(text)
           /\ Lower(SubSeq(text, i + 1, q1 - 1)) = Lower(key)
           /\ Char(text, q1) = "\""
           /\ c <= Len(text) /\ Char(text, c) = ":"
           /\ q2 <= Len(text) /\ Char(text, q2) = "\""
           /\ e <= Len(text) /\ e > q2 + 1
        THEN [from |-> q2 + 1, to |-> e - 1, last |-> e]
        ELSE [from |-> 0, to |-> 0, last |-> 0]

\* candidate.startswith("http") and the extension pattern of line 209
IsFileCandidate(c) ==
    /\ StartsWithAt(c, 1, "http")
    /\ \E i \in 1..Len(c) : ExtsAt(c, i, kaggle_exts, {"?"}, FALSE) # {}

\* re.finditer of the pattern for key from position from on: the values
\* that are file URLs.
RECURSIVE KeyUrlMatches(_, _, _)
KeyUrlMatches(text, from, key) ==
    LET hits == {i \in from..Len(text) : KeyValueAt(text, i, key).last # 0}
    IN  IF hits = {} THEN {}
        ELSE LET m == KeyValueAt(text, FirstOf(hits), key)
                 c == SubSeq(text, m.from, m.to)
             IN  (IF IsFileCandidate(c) THEN {c} ELSE {})
                 \cup KeyUrlMatches(text, m.last + 1, key)

kaggle_keys == {"downloadUrl", "fileUrl", "url", "path", "rawUrl", "archiveUrl"}

Range(seq) == {seq[i] : i \in 1..Len(seq)}

\* Lines 202-210: what one script adds to urls.
ScriptUrls(script) ==
    Range(FileUrlMatches(script.text, 1, TRUE))
    \cup UNION {KeyUrlMatches(script.text, 1, key) : key \in kaggle_keys}

\* Lines 211-218: what one anchor adds to urls.
StorageAnchorUrls(a, base_url) ==
    LET href == Strip(a.attrs["href"])
        full == urljoin(base_url, href)
    IN  IF /\ href # ""
           /\ \E h \in {"kaggleusercontent", "storage.googleapis", "s3.amazonaws", "azureedge"} :
                  Contains(Lower(full), h)
           /\ \E i \in 1..Len(full) : ExtsAt(full, i, kaggle_exts, {"?"}, FALSE) # {}
        THEN {full}
        ELSE {}

\* Lines 219-223: what one script of a JSON type adds to urls.
JsonScriptUrls(tag) ==
    IF HasAttr(tag, "type") /\ Contains(tag.attrs["type"], "application/json")
    THEN Range(FileUrlMatches(tag.text, 1, TRUE))
    ELSE {}

\* Every list of the elements of S: the orders in which a set can be
\* iterated.
RECURSIVE listed(_)
listed(S) ==
    IF S = {} THEN {<<>>} ELSE UNION {{<<x>> \o rest : rest \in listed(S \ {x})} : x \in S}

\* Line 224: the lists sorted(urls) can return, which is one.
sorted(S) == {SortedKeys(S)}

\* Lines 198-224: the lists the function can return.
explore_kaggle_for_files(tree, base_url) ==
    IF tree.none THEN {<<>>}
    ELSE LET urls == UNION {ScriptUrls(sc) : sc \in Range(find_all_script(tree))}
                     \cup UNION {StorageAnchorUrls(a, base_url) : a \in Range(find_all_a(tree))}
                     \cup UNION {JsonScriptUrls(sc) : sc \in Range(find_all_script(tree))}
         IN  {[i \in 1..Len(keys) |-> urljoin(base_url, keys[i])] : keys \in sorted(urls)}

\* Lines 240-245 and 250-255: one distribution per URL.
RECURSIVE UrlDists(_)
UrlDists(urls) ==
    IF urls = <<>> THEN <<>> ELSE <<GuessedDist(Head(urls))>> \o UrlDists(Tail(urls))

\* Lines 246-255: the file URLs of the scripts that mention kaggle.
RECURSIVE KaggleScriptDists(_)
KaggleScriptDists(scripts) ==
    IF scripts = <<>> THEN <<>>
    ELSE (IF Head(scripts).text # "" /\ Contains(Lower(Head(scripts).text), "kaggle")
          THEN UrlDists(FileUrlMatches(Head(scripts).text, 1, FALSE))
          ELSE <<>>)
         \o KaggleScriptDists(Tail(scripts))

\* Lines 226-263: the lists the function can return, one for each list of
\* _explore_kaggle_for_files.
extract_kaggle_specific(tree, base_url) ==
    IF tree.none THEN {<<>>}
    ELSE { DedupByUrl(
               ContainerAnchors(find_all(tree), {},
                                {"file", "resource", "download", "data-file", "dataset-file",
                                 "files"},
                                base_url)
               \o UrlDists(files)
               \o KaggleScriptDists(find_all_script(tree)),
               {}) : files \in explore_kaggle_for_files(tree, base_url) }

-----------------------------------------------------------------------------
(* Keyword extractor *)

STOPWORDS == {"of", "the", "and", "in", "on", "for", "a", "an", "with", "by", "to", "from",
              "dataset", "data", "2009"}

\* The keywords kept (line 103).
MaxKeywords == 25

\* re.findall(r"[A-Za-z0-9]+", text) from position i on.
RECURSIVE Tokens(_, _)
Tokens(text, i) ==
    IF i > Len(text) THEN <<>>
    ELSE IF IsAlnum(Char(text, i))
         THEN <<SubSeq(text, i, AlnumRunEnd(text, i) - 1)>> \o Tokens(text, AlnumRunEnd(text, i))
         ELSE Tokens(text, i + 1)

\* t.isdigit()
IsDigitString(t) == t # "" /\ \A i \in 1..Len(t) : IsDigit(Char(t, i))

\* The loop of lines 96-102 over toks, kws being the keywords so far.
RECURSIVE KeepKeywords(_, _)
KeepKeywords(toks, kws) ==
    IF toks = <<>> THEN kws
    ELSE LET t == Head(toks)
         IN  IF t \in STOPWORDS \/ Len(t) <= 2 THEN KeepKeywords(Tail(toks), kws)
             ELSE IF IsDigitString(t) /\ Len(t) # 4 THEN KeepKeywords(Tail(toks), kws)
             ELSE IF t \in Range(kws) THEN KeepKeywords(Tail(toks), kws)
             ELSE KeepKeywords(Tail(toks), Append(kws, t))

keyword_fields == <<"Sector", "Geographical coverage", "Dataset type">>

\* Lines 92-94: the tokens of the metadata fields from the k-th on.
RECURSIVE FieldTokens(_, _)
FieldTokens(md, k) ==
    IF k > Len(keyword_fields) THEN <<>>
    ELSE (IF Truthy(Get(md, keyword_fields[k]))
          THEN Tokens(Lower(md[keyword_fields[k]]), 1) ELSE <<>>)
         \o FieldTokens(md, k + 1)

\* The tokens are alphanumeric, so replace("_", " ").strip() leaves them as
\* they are.
make_keywords(name, summary, metadata_list) ==
    LET toks == (IF Truthy(name) THEN Tokens(Lower(name), 1) ELSE <<>>)
                \o (IF Truthy(summary) THEN Tokens(Lower(summary), 1) ELSE <<>>)
                \o (IF metadata_list # <<>> THEN FieldTokens(metadata_list[1], 1) ELSE <<>>)
        kws == KeepKeywords(toks, <<>>)
    IN  SubSeq(kws, 1, Min(Len(kws), MaxKeywords))

-----------------------------------------------------------------------------
(* Field selection of convert_to_dcat_dynamic *)

\* a or b
Or(a, b) == IF Truthy(a) THEN a ELSE b

\* Lines 323-336: the site variant, from the hint or else from the URL.
ResolveSite(hint, page) ==
    IF Truthy(hint) THEN hint
    ELSE LET low == Lower(Or(page, ""))
             hostname == Lower(Or(Hostname(page), ""))
         IN  IF Contains(low, "aikosh") \/ Contains(low, "indiaai") THEN "aikosh"
             ELSE IF Contains(low, "kaggle") THEN "kaggle"
             ELSE IF Contains(hostname, "kaggle") THEN "kaggle"
             ELSE IF Contains(hostname, "indiaai") \/ Contains(hostname, "aikosh") THEN "aikosh"
             ELSE "unknown"

\* Line 344: result_json.get("DATASET METADATA", []) or []
MetadataList(raw) ==
    IF "DATASET METADATA" \in DOMAIN raw THEN raw["DATASET METADATA"] ELSE <<>>

\* Line 338
SelectTitle(raw) ==
    Or(Get(raw, "Title"), Or(Get(raw, "title"), "dataset"))

\* Lines 339-343
SelectDescription(raw) ==
    Or(Get(raw, "About Dataset"),
       Or(Get(raw, "Summary"), Or(Get(raw, "Description"), "")))

\* Lines 346-362
SelectPublisher(raw, page, site) ==
    LET metadata_list == MetadataList(raw)
        md == metadata_list[1]
        publisher ==
            IF metadata_list = <<>> THEN None
            ELSE IF site = "aikosh"
                 THEN Or(Get(md, "Source organisation"), Or(Get(md, "Author"), Get(md, "Uploaded by")))
            ELSE IF site = "kaggle"
                 THEN Or(Get(md, "Author"), Or(Get(md, "Owner"), Get(md, "Uploaded by")))
            ELSE None
    IN  IF Truthy(publisher) THEN publisher
        ELSE Or(Get(raw, "Source"), Or(Hostname(page), "Unknown"))

aikosh_date_keys == <<"Date & Time", "Date", "Published", "Published on", "Uploaded on", "Updated">>
aikosh_year_keys == <<"Year range", "Year", "Issued", "Created", "Published">>
default_date_keys == <<"Date & Time", "Date", "Last Updated", "Last modified", "Updated",
                       "Published", "Published on">>
default_year_keys == <<"Year range", "Year", "Issued", "Published", "Created">>

\* The loops over a key list from the k-th key on: the first key with a
\* value that parses decides; None when the list is used up.
\* FirstParsedDate with the loop run to its end: the last key with a value
\* that parses decides.
RECURSIVE LastParsedDate(_, _, _)
LastParsedDate(md, keys, k) ==
    IF k > Len(keys) THEN None
    ELSE IF Truthy(LastParsedDate(md, keys, k + 1)) THEN LastParsedDate(md, keys, k + 1)
    ELSE IF Truthy(Get(md, keys[k])) THEN parse_date_from_metadata(md[keys[k]])
    ELSE None

RECURSIVE FirstParsedDate(_, _, _)
FirstParsedDate(md, keys, k) ==
    IF k > Len(keys) THEN None
    ELSE LET maybe == parse_date_from_metadata(md[keys[k]])
         IN  IF Truthy(Get(md, keys[k])) /\ Truthy(maybe) THEN maybe
             ELSE FirstParsedDate(md, keys, k + 1)

RECURSIVE FirstYear(_, _, _)
FirstYear(md, keys, k) ==
    IF k > Len(keys) THEN None
    ELSE LET y == extract_year_from_string(md[keys[k]])
         IN  IF Truthy(Get(md, keys[k])) /\ Truthy(y) THEN y \o "-01-01"
             ELSE FirstYear(md, keys, k + 1)

\* Line 376: a parsed value of four characters is a year and is made a date.
FullDate(maybe) ==
    IF maybe = None THEN None
    ELSE IF Len(maybe) > 4 THEN maybe ELSE maybe \o "-01-01"

\* AikoshDates without line 389: the modified date is looked up as the
\* other variants do.
AikoshDatesKeepingModified(md) ==
    [issued |-> Or(FullDate(FirstParsedDate(md, aikosh_date_keys, 1)),
                   FirstYear(md, aikosh_year_keys, 1)),
     modified |-> FirstParsedDate(md, default_date_keys, 1)]

\* Lines 370-389: [issued, modified] for the aikosh variant.
AikoshDates(md) ==
    [issued |-> Or(FullDate(FirstParsedDate(md, aikosh_date_keys, 1)),
                   FirstYear(md, aikosh_year_keys, 1)),
     modified |-> None]

\* Lines 391-404: [issued, modified] for the other variants.
DefaultDates(md) ==
    [issued |-> FirstYear(md, default_year_keys, 1),
     modified |-> FirstParsedDate(md, default_date_keys, 1)]

\* Lines 405-409: an aikosh record with only a modified date has it moved to
\* issued.
PromoteModified(picked, site) ==
    IF site = "aikosh" /\ ~Truthy(picked.issued) /\ Truthy(picked.modified)
    THEN [issued |-> picked.modified, modified |-> None]
    ELSE picked

\* Lines 364-409: the dates of the record.
SelectDates(raw, site) ==
    PromoteModified(IF MetadataList(raw) = <<>> THEN [issued |-> None, modified |-> None]
                    ELSE IF site = "aikosh" THEN AikoshDates(MetadataList(raw)[1])
                    ELSE DefaultDates(MetadataList(raw)[1]),
                    site)

\* Lines 411-415
SelectLicense(raw) ==
    LET metadata_list == MetadataList(raw)
        license == IF metadata_list = <<>> THEN None
                       ELSE Or(Get(metadata_list[1], "License"), Get(metadata_list[1], "license"))
    IN  IF Truthy(license) /\ Contains(Lower(license), "open government license")
        THEN "Open Government License, India (https://www.data.gov.in/Godl)"
        ELSE license

-----------------------------------------------------------------------------
(* Distribution merge and record assembly of convert_to_dcat_dynamic *)

\* Lines 424-429: the distribution of a call without a markup tree.
PageDist(page) == GuessedDist(page)

\* The merge without the seen set: every entry is kept.
MergeKeepingAll(dists) == dists

\* Lines 431-437
MergeDistributions(dists) == DedupByUrl(dists, {})

\* Lines 439-442
HasCsv(merged) ==
    \E i \in 1..Len(merged) :
        \/ Get(merged[i], "dcat:mediaType") = "text/csv"
        \/ Upper(Get(merged[i], "dct:format")) = "CSV"

\* PromoteCsv without the has_csv test of line 443.
PromoteCsvIgnoringCsv(merged, site) ==
    LET hits == {i \in 1..Len(merged) :
                    /\ Contains(merged[i]["dcat:accessURL"], "kaggle.com")
                    /\ Get(merged[i], "dcat:mediaType") = "text/html"}
    IN  IF site = "kaggle" /\ hits # {}
        THEN [merged EXCEPT ![FirstOf(hits)] =
                 [x \in DOMAIN @ |->
                     IF x = "dcat:mediaType" THEN "text/csv"
                     ELSE IF x = "dct:format" THEN "CSV" ELSE @[x]]]
        ELSE merged

\* Lines 443-449: the first HTML page of the kaggle domain is relabelled as
\* CSV when the kaggle variant has no CSV distribution.
PromoteCsv(merged, site) ==
    LET hits == {i \in 1..Len(merged) :
                    /\ Contains(merged[i]["dcat:accessURL"], "kaggle.com")
                    /\ Get(merged[i], "dcat:mediaType") = "text/html"}
    IN  IF site = "kaggle" /\ ~HasCsv(merged) /\ hits # {}
        THEN [merged EXCEPT ![FirstOf(hits)] =
                 [x \in DOMAIN @ |->
                     IF x = "dcat:mediaType" THEN "text/csv"
                     ELSE IF x = "dct:format" THEN "CSV" ELSE @[x]]]
        ELSE merged

\* The record with every optional key written whatever its value.
BuildDcatAllKeys(name, description, publisher, issued_on, modified_on, license, keywords, merged) ==
    [x \in {"@context", "dcat:Dataset"} |->
        IF x = "@context" THEN "https://www.w3.org/ns/dcat.jsonld"
        ELSE [k \in {"dct:title", "dct:description", "dct:publisher", "dct:issued",
                     "dct:modified", "dct:license", "dcat:keyword", "dcat:distribution"} |->
                CASE k = "dct:title" -> name
                  [] k = "dct:description" -> description
                  [] k = "dct:publisher" -> [y \in {"foaf:name"} |-> publisher]
                  [] k = "dct:issued" -> issued_on
                  [] k = "dct:modified" -> modified_on
                  [] k = "dct:license" -> license
                  [] k = "dcat:keyword" -> keywords
                  [] k = "dcat:distribution" -> merged]]

\* Lines 453-465: the record; an optional key is there when its value is
\* truthy.
BuildDcat(name, description, publisher, issued_on, modified_on, license, keywords, merged) ==
    LET keys == {"dct:title", "dct:description", "dct:publisher", "dcat:distribution"}
                \cup (IF Truthy(issued_on) THEN {"dct:issued"} ELSE {})
                \cup (IF Truthy(modified_on) THEN {"dct:modified"} ELSE {})
                \cup (IF Truthy(license) THEN {"dct:license"} ELSE {})
                \cup (IF keywords # <<>> THEN {"dcat:keyword"} ELSE {})
        ds == [k \in keys |->
                CASE k = "dct:title" -> name
                  [] k = "dct:description" -> description
                  [] k = "dct:publisher" -> [x \in {"foaf:name"} |-> publisher]
                  [] k = "dct:issued" -> issued_on
                  [] k = "dct:modified" -> modified_on
                  [] k = "dct:license" -> license
                  [] k = "dcat:keyword" -> keywords
                  [] k = "dcat:distribution" -> merged]
    IN  [x \in {"@context", "dcat:Dataset"} |->
            IF x = "@context" THEN "https://www.w3.org/ns/dcat.jsonld" ELSE ds]

\* dcat["dcat:Dataset"]
Dataset(rec) == rec["dcat:Dataset"]

-----------------------------------------------------------------------------
(* Turtle serializer: dcat_to_turtle *)

\* s.replace(old, new) for a one-character old
RECURSIVE Replace(_, _, _)
Replace(s, old, new) ==
    IF s = "" THEN ""
    ELSE (IF Char(s, 1) = old THEN new ELSE Char(s, 1)) \o Replace(SubSeq(s, 2, Len(s)), old, new)

\* .replace('\"','\\\\\"'): a double quote becomes two backslashes and the
\* double quote.
EscapeQuotes(s) == Replace(s, "\"", "\\\\\"")

\* Lines 306-316: the lines of one distribution.
DistLines(d) ==
    <<"    dcat:distribution [">>
    \o (IF Truthy(Get(d, "dct:title"))
        THEN <<"        dct:title \"" \o EscapeQuotes(d["dct:title"]) \o "\" ;">> ELSE <<>>)
    \o (IF Truthy(Get(d, "dcat:accessURL"))
        THEN <<"        dcat:accessURL <" \o d["dcat:accessURL"] \o "> ;">> ELSE <<>>)
    \o (IF Truthy(Get(d, "dcat:mediaType"))
        THEN <<"        dcat:mediaType \"" \o d["dcat:mediaType"] \o "\" ;">> ELSE <<>>)
    \o (IF Truthy(Get(d, "dct:format"))
        THEN <<"        dct:format \"" \o d["dct:format"] \o "\" ">> ELSE <<>>)
    \o <<"    ] ;">>

RECURSIVE AllDistLines(_)
AllDistLines(dists) ==
    IF dists = <<>> THEN <<>> ELSE DistLines(Head(dists)) \o AllDistLines(Tail(dists))

RECURSIVE KeywordLines(_)
KeywordLines(kws) ==
    IF kws = <<>> THEN <<>>
    ELSE <<"    dcat:keyword \"" \o Head(kws) \o "\" ;">> \o KeywordLines(Tail(kws))

\* Lines 270-316: the lines before the last line is closed.
TurtleLines(ds) ==
    << "@prefix dcat: <https://www.w3.org/ns/dcat#> .",
       "@prefix dct: <http://purl.org/dc/terms/> .",
       "@prefix foaf: <http://xmlns.com/foaf/0.1/> .",
       "",
       "_:dataset" >>
    \o (IF Truthy(Get(ds, "dct:title"))
        THEN <<"    dct:title \"" \o EscapeQuotes(ds["dct:title"]) \o "\" ;">> ELSE <<>>)
    \o (IF Truthy(Get(ds, "dct:description"))
        THEN <<"    dct:description \""
               \o Replace(EscapeQuotes(ds["dct:description"]), "\n", " ") \o "\" ;">>
        ELSE <<>>)
    \o (IF Truthy(ds["dct:publisher"]["foaf:name"])
        THEN <<"    dct:publisher [ foaf:name \"" \o ds["dct:publisher"]["foaf:name"] \o "\" ] ;">>
        ELSE <<>>)
    \o (IF Truthy(Get(ds, "dct:issued"))
        THEN <<"    dct:issued \"" \o ds["dct:issued"] \o "\" ;">> ELSE <<>>)
    \o (IF Truthy(Get(ds, "dct:modified"))
        THEN <<"    dct:modified \"" \o ds["dct:modified"] \o "\" ;">> ELSE <<>>)
    \o (IF Truthy(Get(ds, "dct:license"))
        THEN <<"    dct:license <" \o ds["dct:license"] \o "> ;">> ELSE <<>>)
    \o (IF "dcat:keyword" \in DOMAIN ds THEN KeywordLines(ds["dcat:keyword"]) ELSE <<>>)
    \o AllDistLines(ds["dcat:distribution"])

\* s.endswith(suffix)
EndsWith(s, suffix) ==
    Len(s) >= Len(suffix) /\ SubSeq(s, Len(s) - Len(suffix) + 1, Len(s)) = suffix

\* Lines 317-318: the last line ends the statement.  The lines are kept as
\* a list; the text returned is their join with newlines.
dcat_to_turtle(rec) ==
    IF "dcat:Dataset" \notin DOMAIN rec THEN <<"# No DCAT data available">>
    ELSE LET lines == TurtleLines(Dataset(rec))
             last == lines[Len(lines)]
         IN  IF EndsWith(last, " ;")
             THEN [lines EXCEPT ![Len(lines)] = SubSeq(last, 1, Len(last) - 2) \o " ."]
             ELSE lines

-----------------------------------------------------------------------------
(* Calls of convert_to_dcat_dynamic and dcat_to_turtle *)

\* An empty dictionary.
EmptyDict == [x \in {} |-> ""]

\* Lines 323-415: the site variant and the fields taken from the raw result.
SelectFields ==
    /\ pc = "fields"
    /\ \E site \in {ResolveSite(site_hint, url)} :
           /\ site_hint' = site
           /\ publisher_name' = SelectPublisher(result_json, url, site)
           /\ \E dates \in {SelectDates(result_json, site)} :
                  /\ issued' = dates.issued
                  /\ modified' = dates.modified
    /\ title' = SelectTitle(result_json)
    /\ desc' = SelectDescription(result_json)
    /\ license_val' = SelectLicense(result_json)
    /\ pc' = IF soup.none THEN "page" ELSE "site_scan"
    /\ UNCHANGED <<inputVars, scanVars, dcat, ttl>>

\* Lines 418-422: the scan of the site variant, then the generic scan is
\* entered.
SiteScan ==
    /\ pc = "site_scan"
    /\ distributions' \in
           IF site_hint = "aikosh" THEN {extract_aikosh_specific(soup, url)}
           ELSE IF site_hint = "kaggle" THEN extract_kaggle_specific(soup, url)
           ELSE {<<>>}
    /\ found' = EmptyDict
    /\ scan_i' = 1
    /\ pc' = "anchors"
    /\ UNCHANGED <<inputVars, fieldVars, dcat, ttl>>

\* Lines 113-126: one anchor.
ScanAnchor ==
    /\ pc = "anchors"
    /\ scan_i <= Len(find_all_a(soup))
    /\ found' = AnchorStep(found, find_all_a(soup)[scan_i], url)
    /\ scan_i' = scan_i + 1
    /\ UNCHANGED <<inputVars, fieldVars, distributions, pc, dcat, ttl>>

ScanAnchorsDone ==
    /\ pc = "anchors"
    /\ scan_i > Len(find_all_a(soup))
    /\ scan_i' = 1
    /\ pc' = "attrs"
    /\ UNCHANGED <<inputVars, fieldVars, distributions, found, dcat, ttl>>

\* Lines 129-142: one element.
ScanAttrs ==
    /\ pc = "attrs"
    /\ scan_i <= Len(find_all(soup))
    /\ found' = AttrStep(found, find_all(soup)[scan_i], url)
    /\ scan_i' = scan_i + 1
    /\ UNCHANGED <<inputVars, fieldVars, distributions, pc, dcat, ttl>>

ScanAttrsDone ==
    /\ pc = "attrs"
    /\ scan_i > Len(find_all(soup))
    /\ scan_i' = 1
    /\ pc' = "scripts"
    /\ UNCHANGED <<inputVars, fieldVars, distributions, found, dcat, ttl>>

\* Lines 144-156: one script.
ScanScript ==
    /\ pc = "scripts"
    /\ scan_i <= Len(find_all_script(soup))
    /\ found' = ScriptStep(found, find_all_script(soup)[scan_i])
    /\ scan_i' = scan_i + 1
    /\ UNCHANGED <<inputVars, fieldVars, distributions, pc, dcat, ttl>>

\* Lines 158-164 and 423: the generic scan returns and its list is added to
\* the distributions.
ScanReturn ==
    /\ pc = "scripts"
    /\ scan_i > Len(find_all_script(soup))
    /\ distributions' = distributions \o FinishScan(found, url)
    /\ scan_i' = 1
    /\ pc' = "merge"
    /\ UNCHANGED <<inputVars, fieldVars, found, dcat, ttl>>

\* Lines 424-429: without a tree the page is the one distribution; the
\* TypeError of a missing URL ends the call.
PageDistribution ==
    /\ pc = "page"
    /\ IF uppercase_ext_from_url(url) = TypeError
       THEN pc' = "raised" /\ UNCHANGED distributions
       ELSE pc' = "merge" /\ distributions' = <<PageDist(url)>>
    /\ UNCHANGED <<inputVars, fieldVars, found, scan_i, dcat, ttl>>

\* Lines 431-471: merge, CSV promotion, keywords and the record.
Assemble ==
    /\ pc = "merge"
    /\ dcat' = BuildDcat(title, desc, publisher_name, issued, modified, license_val,
                         make_keywords(title, Get(result_json, "Summary"),
                                       MetadataList(result_json)),
                         PromoteCsv(MergeDistributions(distributions), site_hint))
    /\ pc' = "turtle"
    /\ UNCHANGED <<inputVars, fieldVars, scanVars, ttl>>

\* Line 722: ttl = dcat_to_turtle(dcat)
Serialize ==
    /\ pc = "turtle"
    /\ ttl' = dcat_to_turtle(dcat)
    /\ pc' = "done"
    /\ UNCHANGED <<inputVars, fieldVars, scanVars, dcat>>

\* The caller calls convert_to_dcat_dynamic once more with the result, the
\* page, the tree and the variant of the call that returned; the names of
\* the function are bound anew as the second call runs.
CallAgain ==
    /\ pc = "done"
    /\ calls = 1
    /\ calls' = 2
    /\ first_dcat' = dcat
    /\ pc' = "fields"
    /\ UNCHANGED <<inputVars, fieldVars, scanVars, dcat, ttl>>

-----------------------------------------------------------------------------
(* Inputs of convert_to_dcat_dynamic *)

\* The elements a page is put together from.
MaxNodes == 2
\* The keys of a metadata mapping.
MaxMetaKeys == 2

KagglePage == "https://www.kaggle.com/datasets/u/d"
AikoshPage == "https://aikosh.indiaai.gov.in/home/datasets/d"
OtherPage == "https://x.org/data/d"

\* The page URL with the site_hint argument.
SiteArgs ==
    { <<KagglePage, None>>, <<AikoshPage, None>>, <<OtherPage, None>>,
      <<OtherPage, "aikosh">>, <<KagglePage, "unknown">> }

Palette ==
    { Leaf("a", "", [href |-> "/files/d.csv"], "Download CSV"),
      Leaf("a", "", [href |-> " /files/d.csv "], ""),
      Leaf("a", "btn-download", [href |-> "https://x.org/files/b.zip"], "Get \"raw\" file"),
      Leaf("a", "", [href |-> "/about"], "About"),
      Leaf("span", "", ("data-url" :> "/files/d.csv"), ""),
      Leaf("button", "resource-item", ("data-download" :> "/files/a.json") @@ ("data-href" :> "/view"), ""),
      Element("div", "resource-list", NoAttrs, "",
              << Leaf("a", "", [href |-> "/files/z.xlsx"], "Sheet"),
                 Leaf("a", "", [href |-> "/files/d.csv"], "Data") >>),
      Element("section", "dataset-files", NoAttrs, "",
              << Leaf("a", "", [href |-> "/docs/readme"], "Readme") >>),
      Leaf("script", "", NoAttrs,
           "var f = \"https://www.kaggle.com/api/v1/d.csv?v=1\"; var g='https://x.org/files/b.zip'"),
      Leaf("script", "", [type |-> "application/json"],
           "{\"downloadUrl\": \"https://storage.googleapis.com/k/train.parquet\", \"path\":\"/rel/x.csv\"}"),
      Leaf("a", "", [href |-> "https://storage.googleapis.com/k/train.parquet?sig=abc"], "train") }

\* The pages of up to n elements.
RECURSIVE Bodies(_)
Bodies(n) ==
    IF n = 0 THEN {<<>>}
    ELSE Bodies(n - 1) \cup {Append(b, e) : b \in {x \in Bodies(n - 1) : Len(x) = n - 1}, e \in Palette}

Soups == {Soup(b) : b \in Bodies(MaxNodes)} \cup {NoSoup}

DateKeys == Range(aikosh_date_keys) \cup Range(aikosh_year_keys)
            \cup Range(default_date_keys) \cup Range(default_year_keys)

MetaKeys == DateKeys \cup {"License", "Author"}

\* The values a key of the metadata mapping is given.
MetaValues(key) ==
    IF key \in DateKeys THEN {"", "n/a", "15/03/2023", "2019"}
    ELSE IF key \in {"License", "license"} THEN {"", "MIT", "Open Government License - India"}
    ELSE {"Alice"}

AllMetaValues == UNION {MetaValues(k) : k \in MetaKeys}

\* The metadata mappings with up to MaxMetaKeys keys.
Metadata ==
    UNION { {md \in [K -> AllMetaValues] : \A k \in K : md[k] \in MetaValues(k)} :
            K \in {S \in SUBSET MetaKeys : Cardinality(S) <= MaxMetaKeys} }

\* The raw scrape result as run_scrapper builds it.
RawResult(t, summary, about, md) ==
    [x \in {"Title", "Summary", "About Dataset", "DATASET METADATA", "Source", "URL"} |->
        CASE x = "Title" -> t
          [] x = "Summary" -> summary
          [] x = "About Dataset" -> about
          [] x = "DATASET METADATA" -> <<md>>
          [] x = "Source" -> "IndiaAI"
          [] x = "URL" -> ""]

Titles == {None, "Crime Data of the City", "The \"open\" data of 2021"}
Texts == {None, "Line one\nand \"two\"", "Crimes by city and year"}

\* The calls: every page with a plain result, every metadata mapping
\* without a page, and every text with a small page.
ConvertCalls ==
    { [raw |-> RawResult("Crime Data of the City", None, None,
                         [license |-> "MIT", Sector |-> "Public Health_2021"]),
       site |-> a, tree |-> t] : a \in SiteArgs, t \in Soups }
    \cup
    { [raw |-> RawResult("Crime Data of the City", None, None, md),
       site |-> a, tree |-> NoSoup] :
         a \in {<<AikoshPage, None>>, <<OtherPage, None>>}, md \in Metadata }
    \cup
    { [raw |-> RawResult(t, sm, ab, EmptyDict), site |-> a, tree |-> tr] :
         t \in Titles, sm \in Texts, ab \in Texts,
         a \in {<<OtherPage, None>>, <<None, None>>},
         tr \in {NoSoup, Soup(<<Leaf("a", "btn-download", [href |-> "https://x.org/files/b.zip"],
                                     "Get \"raw\" file")>>)} }

ConvertInit ==
    /\ \E c \in ConvertCalls :
          /\ result_json = c.raw
          /\ url = c.site[1]
          /\ site_hint = c.site[2]
          /\ soup = c.tree
    /\ pc = "fields"
    /\ title = None
    /\ desc = None
    /\ publisher_name = None
    /\ issued = None
    /\ modified = None
    /\ license_val = None
    /\ distributions = <<>>
    /\ found = EmptyDict
    /\ scan_i = 1
    /\ dcat = EmptyDict
    /\ ttl = <<>>

ConvertIdle ==
    /\ result_json = EmptyDict
    /\ url = None
    /\ site_hint = None
    /\ soup = NoSoup
    /\ pc = "idle"
    /\ title = None
    /\ desc = None
    /\ publisher_name = None
    /\ issued = None
    /\ modified = None
    /\ license_val = None
    /\ distributions = <<>>
    /\ found = EmptyDict
    /\ scan_i = 1
    /\ dcat = EmptyDict
    /\ ttl = <<>>

-----------------------------------------------------------------------------
(* The metadata scan of run_scrapper *)

\* A value json.loads returns: a string, an object with its members in
\* document order, a list (members without keys) or null; JBad is a script
\* text on which json.loads raises.
JStr(s) == [t |-> "str", s |-> s, items |-> <<>>]
JObj(members) == [t |-> "obj", s |-> "", items |-> members]
JList(members) == [t |-> "list", s |-> "", items |-> members]
JNull == [t |-> "null", s |-> "", items |-> <<>>]
JBad == [t |-> "bad", s |-> "", items |-> <<>>]
Member(k, v) == [k |-> k, v |-> v]
Item(v) == [k |-> "", v |-> v]

\* bool(j)
JTruthy(j) == (j.t = "str" /\ j.s # "") \/ (j.t \in {"obj", "list"} /\ j.items # <<>>)

\* key in o, and o.get(key) of an object
JHas(o, key) == \E i \in 1..Len(o.items) : o.items[i].k = key
JGet(o, key) ==
    IF JHas(o, key) THEN o.items[CHOOSE i \in 1..Len(o.items) : o.items[i].k = key].v
    ELSE JNull

\* a or b
JOr(a, b) == IF JTruthy(a) THEN a ELSE b

\* Lines 574 and 640: name, else @id, else url of a license object.
LicenseLabel(l) == JOr(JOr(JGet(l, "name"), JGet(l, "@id")), JGet(l, "url"))

\* Lines 568-587 and 635-652.
RECURSIVE extract_from_ld(_)
RECURSIVE ExtractFromItems(_, _)
ExtractFromItems(items, k) ==
    IF k > Len(items) THEN JNull
    ELSE IF JTruthy(extract_from_ld(items[k].v)) THEN extract_from_ld(items[k].v)
    ELSE ExtractFromItems(items, k + 1)

extract_from_ld(o) ==
    IF o.t = "obj" THEN
        IF JHas(o, "license") /\ JTruthy(JGet(o, "license")) THEN JGet(o, "license")
        ELSE IF JGet(o, "license").t = "obj" /\ JTruthy(LicenseLabel(JGet(o, "license")))
        THEN LicenseLabel(JGet(o, "license"))
        ELSE ExtractFromItems(o.items, 1)
    ELSE IF o.t = "list" THEN ExtractFromItems(o.items, 1)
    ELSE JNull

\* repr(j) of a value whose strings hold no quote, and str(j).
RECURSIVE PyRepr(_)
RECURSIVE ReprItems(_, _, _)
ReprItems(items, k, keyed) ==
    IF k > Len(items) THEN ""
    ELSE (IF k > 1 THEN ", " ELSE "")
         \o (IF keyed THEN "'" \o items[k].k \o "': " ELSE "")
         \o PyRepr(items[k].v) \o ReprItems(items, k + 1, keyed)

PyRepr(j) ==
    IF j.t = "str" THEN "'" \o j.s \o "'"
    ELSE IF j.t = "obj" THEN "{" \o ReprItems(j.items, 1, TRUE) \o "}"
    ELSE IF j.t = "list" THEN "[" \o ReprItems(j.items, 1, FALSE) \o "]"
    ELSE "None"

\* Lines 591 and 655: lic if isinstance(lic, str) else str(lic)
PyStr(j) == IF j.t = "str" THEN j.s ELSE PyRepr(j)

\* s.replace(sub, "")
RECURSIVE Remove(_, _)
Remove(s, sub) ==
    IF sub = "" \/ s = "" THEN s
    ELSE IF StartsWithAt(s, 1, sub) THEN Remove(SubSeq(s, Len(sub) + 1, Len(s)), sub)
    ELSE Char(s, 1) \o Remove(SubSeq(s, 2, Len(s)), sub)

\* s.strip(chars)
RECURSIVE StripChars(_, _)
StripChars(s, cs) ==
    IF s = "" THEN s
    ELSE IF Char(s, 1) \in cs THEN StripChars(SubSeq(s, 2, Len(s)), cs)
    ELSE IF Char(s, Len(s)) \in cs THEN StripChars(SubSeq(s, 1, Len(s) - 1), cs)
    ELSE s

\* Line 503
SourceOf(page) == IF Contains(Lower(page), "kaggle") THEN "Kaggle" ELSE "IndiaAI"

\* Lines 537-541: metadata_dict after try_set_meta(key, value).
try_set_meta_overwriting(md, key, value) ==
    IF Truthy(key) /\ Truthy(value) THEN Put(md, key, Strip(value)) ELSE md

try_set_meta(md, key, value) ==
    IF Truthy(key) /\ Truthy(value)
    THEN IF key \notin DOMAIN md \/ ~Truthy(Get(md, key)) THEN Put(md, key, Strip(value))
         ELSE md
    ELSE md

\* One call of try_set_meta.
Call(key, value) == [key |-> key, value |-> value]

\* The calls of a loop: those of its rounds, one after the other.
RECURSIVE Flatten(_, _)
Flatten(rounds, k) ==
    IF k > Len(rounds) THEN <<>> ELSE rounds[k] \o Flatten(rounds, k + 1)

\* Lines 545-551: the containers with a strong or b element, each with the
\* text of that element and its own text.
StrongCalls(items) ==
    [i \in 1..Len(items) |->
        Call(Replace(items[i].strong, ":", ""),
             StripChars(Remove(items[i].text, items[i].strong), {" ", ":"}))]

\* Lines 554-560: the rows, each with the texts of its columns.
RowCalls(rows) ==
    Flatten([i \in 1..Len(rows) |->
                IF Len(rows[i]) >= 2
                THEN <<Call(Replace(rows[i][1], ":", ""), rows[i][2])>>
                ELSE <<>>], 1)

\* Lines 563-594 and 631-657: the linked-data scripts, each parsed.
LdCalls(scripts) ==
    Flatten([i \in 1..Len(scripts) |->
                IF scripts[i].t # "bad" /\ JTruthy(extract_from_ld(scripts[i]))
                THEN <<Call("License", PyStr(extract_from_ld(scripts[i])))>>
                ELSE <<>>], 1)

\* The alternatives of the patterns of lines 599 and 661; dot is the
\* position of an unescaped ".", or 0.
LicenseHosts(strategy) ==
    { [lit |-> "creativecommons", dot |-> 0], [lit |-> "opensource.org", dot |-> 11],
      [lit |-> "apache.org", dot |-> 7], [lit |-> "gnu.org", dot |-> 4],
      [lit |-> "mit-license", dot |-> 0], [lit |-> "license", dot |-> 0] }
    \cup (IF strategy = "Kaggle"
          THEN {[lit |-> "creativecommons.org", dot |-> 16], [lit |-> "mit.txt", dot |-> 0]}
          ELSE {})

\* re.search(alternative, href, re.I) of a lower-case href
HostSearch(href, alt) ==
    \E i \in 1..(Len(href) - Len(alt.lit) + 1) :
        \A j \in 1..Len(alt.lit) :
            j = alt.dot \/ Char(href, i + j - 1) = Char(alt.lit, j)

\* Lines 597-602 and 659-663: the anchors with an href.
AnchorCalls(anchors, strategy) ==
    Flatten([i \in 1..Len(anchors) |->
                IF \E alt \in LicenseHosts(strategy) :
                       HostSearch(Lower(Strip(anchors[i].href)), alt)
                THEN <<Call("License", Or(anchors[i].text, Strip(anchors[i].href)))>>
                ELSE <<>>], 1)

\* Line 609: the longest text the pattern keeps after the label.
LabelWindow == 200

\* The position after the run of ":", white space and "-" from i.
RECURSIVE LabelRunEnd(_, _)
LabelRunEnd(s, i) ==
    IF i <= Len(s) /\ Char(s, i) \in {":", " ", "-"} THEN LabelRunEnd(s, i + 1) ELSE i

\* Line 609: group 1 of re.search(r"license[:\s\-]*([\w\W]{1,200})", text,
\* re.I), or None: the first "license" with a character after it, whose
\* separators the group leaves out unless nothing else follows.
LabelGroup(text, hits) ==
    IF hits = {} THEN None
    ELSE SubSeq(text,
                Min(LabelRunEnd(text, (CHOOSE h \in hits : \A g \in hits : h <= g) + 7),
                    Len(text)),
                Min(Len(text),
                    Min(LabelRunEnd(text, (CHOOSE h \in hits : \A g \in hits : h <= g) + 7),
                        Len(text)) + LabelWindow - 1))

LabelSearch(text) ==
    LabelGroup(text, {i \in 1..(Len(text) - 7) : StartsWithAt(Lower(text), i, "license")})

\* Lines 605-616: the text nodes with the word license, each with the text
\* of its parent and of the parent's next sibling (None without one).
LabelCalls(labels) ==
    Flatten([i \in 1..Len(labels) |->
                IF LabelSearch(labels[i].text) # None
                THEN <<Call("License", Strip(LabelSearch(labels[i].text)))>>
                ELSE IF labels[i].sib # None THEN <<Call("License", labels[i].sib)>>
                ELSE <<>>], 1)

\* Lines 619-628: the blocks of the metadata container, when the page has
\* one, each with the text of its label and of its paragraph (None without
\* one).
BlockCalls(section) ==
    IF section.none THEN <<>>
    ELSE Flatten([i \in 1..Len(section.blocks) |->
                     IF section.blocks[i].label # None /\ section.blocks[i].value # None
                     THEN <<Call(section.blocks[i].label, section.blocks[i].value)>>
                     ELSE <<>>], 1)

\* Lines 543 and 618: the passes of a strategy in the order the code runs
\* them.
Passes(strategy) ==
    IF strategy = "Kaggle" THEN <<"strong", "rows", "ld", "anchors", "labels">>
    ELSE <<"blocks", "ld", "anchors">>

\* The calls one pass makes on a page.
PassCalls(pass, page, strategy) ==
    CASE pass = "strong" -> StrongCalls(page.strong)
      [] pass = "rows" -> RowCalls(page.rows)
      [] pass = "ld" -> LdCalls(page.ld)
      [] pass = "anchors" -> AnchorCalls(page.anchors, strategy)
      [] pass = "labels" -> LabelCalls(page.labels)
      [] pass = "blocks" -> BlockCalls(page.blocks)

\* Line 503
ChooseSource ==
    /\ rs_pc = "source"
    /\ source' = SourceOf(rs_url)
    /\ rs_pc' = "scan"
    /\ UNCHANGED <<rs_url, rs_hint, rs_page, rs_pass, rs_calls, rs_i, metadata_dict,
                   rs_result, rs_site>>

\* The next for loop of the branch of lines 543-663 starts.
BeginPass ==
    /\ rs_pc = "scan"
    /\ rs_i > Len(rs_calls)
    /\ rs_pass < Len(Passes(source))
    /\ rs_pass' = rs_pass + 1
    /\ rs_calls' = PassCalls(Passes(source)[rs_pass + 1], rs_page, source)
    /\ rs_i' = 1
    /\ UNCHANGED <<rs_url, rs_hint, rs_page, source, rs_pc, metadata_dict, rs_result, rs_site>>

\* One call of try_set_meta by the running pass.
TrySetMeta ==
    /\ rs_pc = "scan"
    /\ rs_i <= Len(rs_calls)
    /\ metadata_dict' = try_set_meta(metadata_dict, rs_calls[rs_i].key, rs_calls[rs_i].value)
    /\ rs_i' = rs_i + 1
    /\ UNCHANGED <<rs_url, rs_hint, rs_page, source, rs_pc, rs_pass, rs_calls, rs_result,
                   rs_site>>

\* Lines 666-668
ReturnResult ==
    /\ rs_pc = "scan"
    /\ rs_i > Len(rs_calls)
    /\ rs_pass = Len(Passes(source))
    /\ rs_result' = ("DATASET METADATA" :> <<metadata_dict>>) @@ ("Source" :> source)
                    @@ ("URL" :> rs_url)
    /\ rs_pc' = "convert"
    /\ UNCHANGED <<rs_url, rs_hint, rs_page, source, rs_pass, rs_calls, rs_i, metadata_dict,
                   rs_site>>

\* Lines 719-721 with 323-336: api_scrape hands the request's url and
\* site_hint to convert_to_dcat_dynamic, which resolves the variant.
ResolveVariant ==
    /\ rs_pc = "convert"
    /\ rs_site' = ResolveSite(rs_hint, rs_url)
    /\ rs_pc' = "done"
    /\ UNCHANGED <<rs_url, rs_hint, rs_page, source, rs_pass, rs_calls, rs_i, metadata_dict,
                   rs_result>>

\* The containers, rows, scripts, anchors, text nodes and blocks of the pages.
StrongLists ==
    { <<>>,
      <<[strong |-> "License:", text |-> "License:MIT"]>>,
      <<[strong |-> "License:", text |-> "License:MIT"],
        [strong |-> "License", text |-> "LicenseCC0"],
        [strong |-> "Tags:", text |-> "Tags:"]>>,
      <<[strong |-> ":", text |-> ":x"], [strong |-> "Usability", text |-> "Usability: 8.8"]>> }

RowLists ==
    { <<>>, << <<"License:", "Apache 2.0">>, <<"Size">> >>, << <<"Usability", "10.0">> >> }

Scripts ==
    { JObj(<<Member("name", JStr("d")), Member("license", JStr(" CC0 "))>>),
      JObj(<<Member("license", JStr("  "))>>),
      JObj(<<Member("license", JObj(<<Member("name", JStr("MIT")),
                                      Member("url", JStr("https://mit.edu"))>>))>>),
      JObj(<<Member("license", JObj(<<>>)),
             Member("@graph", JList(<<Item(JStr("x")),
                                      Item(JObj(<<Member("license", JStr("GPL"))>>)),
                                      Item(JObj(<<Member("license", JStr("BSD"))>>))>>))>>),
      JObj(<<Member("license", JObj(<<Member("@id", JStr("https://spdx.org/licenses/MIT"))>>))>>),
      JObj(<<Member("name", JStr("d"))>>),
      JStr("license"),
      JBad }

ScriptLists ==
    {<<>>} \cup {<<s>> : s \in Scripts}
    \cup { <<JObj(<<Member("license", JStr("  "))>>),
             JObj(<<Member("name", JStr("d")), Member("license", JStr(" CC0 "))>>)>> }

AnchorLists ==
    { <<>>,
      <<[href |-> " https://creativecommons.org/licenses/by/4.0/ ", text |-> "CC BY 4.0"],
        [href |-> "/about", text |-> "About"]>>,
      <<[href |-> "https://opensourceXorg/MIT", text |-> ""],
        [href |-> "/LICENSE", text |-> "Terms"]>>,
      <<[href |-> "/files/mit.txt", text |-> "MIT text"]>> }

LabelLists ==
    { <<>>,
      <<[text |-> "License: ODbL and more", sib |-> None]>>,
      <<[text |-> "License", sib |-> "CC0: Public Domain"], [text |-> "License", sib |-> None]>>,
      <<[text |-> "license -", sib |-> "Unknown"], [text |-> "see license: GPL", sib |-> None]>> }

BlockLists ==
    { [none |-> TRUE, blocks |-> <<>>],
      [none |-> FALSE, blocks |-> <<>>],
      [none |-> FALSE,
       blocks |-> <<[label |-> "License", value |-> "Open Government License - India"],
                    [label |-> "License", value |-> "Other"],
                    [label |-> "Date", value |-> "15/03/2023"]>>],
      [none |-> FALSE,
       blocks |-> <<[label |-> "Sector", value |-> ""], [label |-> None, value |-> "x"],
                    [label |-> "Year", value |-> "2019"]>>] }

\* The pages of a request: the strategies read different elements, so a
\* page varies in those its strategy reads.
ScrapePages(page) ==
    IF SourceOf(page) = "Kaggle"
    THEN [strong : StrongLists, rows : RowLists, ld : ScriptLists, anchors : AnchorLists,
          labels : LabelLists, blocks : {[none |-> TRUE, blocks |-> <<>>]}]
    ELSE [strong : {<<>>}, rows : {<<>>}, ld : ScriptLists, anchors : AnchorLists,
          labels : {<<>>}, blocks : BlockLists]

\* The site_hint field of a request.
RequestHints == {None, "kaggle", "aikosh", "unknown", "ckan"}

ScrapeInit ==
    /\ rs_url \in {KagglePage, AikoshPage, OtherPage}
    /\ rs_hint \in RequestHints
    /\ rs_page \in ScrapePages(rs_url)
    /\ rs_pc = "source"
    /\ source = NotCalled
    /\ rs_pass = 0
    /\ rs_calls = <<>>
    /\ rs_i = 1
    /\ metadata_dict = EmptyDict
    /\ rs_result = EmptyDict
    /\ rs_site = NotCalled

ScrapeIdle ==
    /\ rs_url = None
    /\ rs_hint = None
    /\ rs_page = EmptyDict
    /\ rs_pc = "idle"
    /\ source = NotCalled
    /\ rs_pass = 0
    /\ rs_calls = <<>>
    /\ rs_i = 1
    /\ metadata_dict = EmptyDict
    /\ rs_result = EmptyDict
    /\ rs_site = NotCalled

-----------------------------------------------------------------------------
(* Specifications *)

DateIdle ==
    /\ dt_string = None
    /\ dt_pc = "idle"
    /\ dt_parsed = NotCalled
    /\ dt_year = NotCalled

RepeatIdle ==
    /\ calls = 1
    /\ first_dcat = EmptyDict

ClassIdle ==
    /\ cf_url = None
    /\ cf_pc = "idle"
    /\ cf_media = NotCalled
    /\ cf_format = NotCalled

\* The date normalizer on its own.
InitDate == DateInit /\ ClassIdle /\ ConvertIdle /\ ScrapeIdle /\ RepeatIdle
NextDate ==
    \/ ParseDate /\ UNCHANGED <<classVars, convertVars, restVars>>
    \/ ExtractYear /\ UNCHANGED <<classVars, convertVars, restVars>>
SpecDate == InitDate /\ [][NextDate]_vars

\* The classifier on its own.
InitClass == ClassInit /\ DateIdle /\ ConvertIdle /\ ScrapeIdle /\ RepeatIdle
NextClass ==
    \/ GuessMediaType /\ UNCHANGED <<dateVars, convertVars, restVars>>
    \/ UppercaseExt /\ UNCHANGED <<dateVars, convertVars, restVars>>
SpecClass == InitClass /\ [][NextClass]_vars

\* A conversion request: convert_to_dcat_dynamic, then dcat_to_turtle.
Init == ConvertInit /\ DateIdle /\ ClassIdle /\ ScrapeIdle /\ RepeatIdle
Next ==
    \/ SelectFields /\ UNCHANGED <<dateVars, classVars, restVars>>
    \/ SiteScan /\ UNCHANGED <<dateVars, classVars, restVars>>
    \/ ScanAnchor /\ UNCHANGED <<dateVars, classVars, restVars>>
    \/ ScanAnchorsDone /\ UNCHANGED <<dateVars, classVars, restVars>>
    \/ ScanAttrs /\ UNCHANGED <<dateVars, classVars, restVars>>
    \/ ScanAttrsDone /\ UNCHANGED <<dateVars, classVars, restVars>>
    \/ ScanScript /\ UNCHANGED <<dateVars, classVars, restVars>>
    \/ ScanReturn /\ UNCHANGED <<dateVars, classVars, restVars>>
    \/ PageDistribution /\ UNCHANGED <<dateVars, classVars, restVars>>
    \/ Assemble /\ UNCHANGED <<dateVars, classVars, restVars>>
    \/ Serialize /\ UNCHANGED <<dateVars, classVars, restVars>>
Spec == Init /\ [][Next]_vars

\* A conversion of a page with a tree or of a result without metadata,
\* called twice.
InitTwice == Init /\ (~soup.none \/ MetadataList(result_json) = <<EmptyDict>>)
NextTwice ==
    \/ Next
    \/ CallAgain /\ UNCHANGED <<dateVars, classVars, scrapeVars>>
SpecTwice == InitTwice /\ [][NextTwice]_vars

\* A request: the metadata scan of run_scrapper, then the variant of the
\* conversion.
InitScrape == ScrapeInit /\ DateIdle /\ ClassIdle /\ ConvertIdle /\ RepeatIdle
NextScrape ==
    \/ ChooseSource /\ UNCHANGED <<dateVars, classVars, convertVars, repeatVars>>
    \/ BeginPass /\ UNCHANGED <<dateVars, classVars, convertVars, repeatVars>>
    \/ TrySetMeta /\ UNCHANGED <<dateVars, classVars, convertVars, repeatVars>>
    \/ ReturnResult /\ UNCHANGED <<dateVars, classVars, convertVars, repeatVars>>
    \/ ResolveVariant /\ UNCHANGED <<dateVars, classVars, convertVars, repeatVars>>
SpecScrape == InitScrape /\ [][NextScrape]_vars

-----------------------------------------------------------------------------
(* Properties *)

\* convert_to_dcat_dynamic has returned its record.
Assembled == pc \in {"turtle", "done"}

\* The dcat:distribution list of the record.
Distributions == Dataset(dcat)["dcat:distribution"]

\* The first metadata mapping of the request, empty when there is none.
FirstMetadata ==
    IF MetadataList(result_json) = <<>> THEN EmptyDict ELSE MetadataList(result_json)[1]

\* What the scan of the site variant reports for the page of the request.
SiteSpecific ==
    IF soup.none THEN <<>>
    ELSE IF site_hint = "aikosh" THEN extract_aikosh_specific(soup, url)
    ELSE IF site_hint = "kaggle" THEN CHOOSE ds \in extract_kaggle_specific(soup, url) : TRUE
    ELSE <<>>

\* The entries of ds from the k-th on are in strictly ascending order of
\* their access URLs.
AscendingFrom(ds, k) ==
    \A i \in k..(Len(ds) - 1) : StrLess(ds[i]["dcat:accessURL"], ds[i + 1]["dcat:accessURL"])

\* C1: a record assembled under the aikosh variant never has the key
\* dct:modified, whatever date-like keys the metadata mapping holds.
AikoshNeverModified ==
    (Assembled /\ site_hint = "aikosh") => "dct:modified" \notin DOMAIN Dataset(dcat)

\* An aikosh record is assembled from metadata in which a key of the default
\* modified list holds a date; the date is issued.
AikoshNeverModifiedWitness ==
    /\ pc = "done"
    /\ site_hint = "aikosh"
    /\ \E k \in Range(default_date_keys) :
          Truthy(parse_date_from_metadata(Get(FirstMetadata, k)))
    /\ "dct:issued" \in DOMAIN Dataset(dcat)

\* The year the pivot rule gives the two-digit year yy.
PivotOf(yy) == IF yy <= PivotYear THEN 2000 + yy ELSE 1900 + yy

\* C2: on every path of the date normalizer a two-digit year YY becomes 20YY
\* when YY <= 25 and 19YY otherwise: a day/month/two-digit-year date is
\* normalized to a date of that year, and a bare two-digit year to that year.
TwoDigitYearPivot ==
    /\ \A d \in {"01", "15"}, m \in {"01", "02"}, sep \in {"/", "-"}, y \in TwoDigitYears :
          (dt_pc # "parse" /\ dt_string = d \o sep \o m \o sep \o y)
              => SubSeq(dt_parsed, 1, 4) = ToStr(PivotOf(ToInt(y)))
    /\ \A y \in TwoDigitYears :
          (dt_pc = "done" /\ dt_string = y) => dt_year = ToStr(PivotOf(ToInt(y)))

\* C3 as stated: the distributions of every record are in ascending order of
\* their access URLs.
DistributionsAscending ==
    Assembled => AscendingFrom(Distributions, 1)

\* C3: the entries of the site variant's scan come first, in the order they
\* were found; the entries after them, those of the generic scan, are in
\* ascending order of their access URLs.  A record with no entry of a site
\* scan is in ascending order throughout.
GenericPartAscending ==
    Assembled =>
        LET first == MergeDistributions(SiteSpecific)
        IN  /\ Len(first) <= Len(Distributions)
            /\ \A i \in 1..Len(first) :
                  Distributions[i]["dcat:accessURL"] = first[i]["dcat:accessURL"]
            /\ AscendingFrom(Distributions, Len(first) + 1)

\* A record with two entries of the generic scan whose anchors stand in the
\* page in descending order of their URLs.
GenericPartAscendingWitness ==
    /\ pc = "done"
    /\ ~soup.none
    /\ Len(find_all_a(soup)) = 2
    /\ StrLess(urljoin(url, Strip(find_all_a(soup)[2].attrs["href"])),
               urljoin(url, Strip(find_all_a(soup)[1].attrs["href"])))
    /\ Len(Distributions) = Len(MergeDistributions(SiteSpecific)) + 2

\* C4: the page itself (text/html, HTML) is among the discovered
\* distributions exactly when neither the site variant's scan nor the generic
\* scan found anything, and then it is the only one.
FallbackOnlyWhenNothingFound ==
    (pc = "merge" /\ ~soup.none) =>
        LET present == \E i \in 1..Len(distributions) :
                           distributions[i] = Dist(url, "text/html", "HTML")
        IN  /\ present <=> (SiteSpecific = <<>> /\ DOMAIN found = {})
            /\ present => Len(distributions) = 1

\* C5: what the generic scan has recorded for a URL stays as it is: no later
\* reference to the URL replaces or removes a field.
RecordedFieldsKept ==
    [][\A u \in DOMAIN found :
          /\ u \in DOMAIN found'
          /\ \A f \in DOMAIN found[u] :
                f \in DOMAIN found'[u] /\ found'[u][f] = found[u][f]]_vars

\* C6: under the kaggle variant a lone HTML distribution of the kaggle domain
\* leaves the record with one distribution, text/csv and CSV; at most one
\* distribution is rewritten, the first such HTML page, and only under the
\* kaggle variant when no merged distribution is text/csv or CSV.
KaggleCsvPromotion ==
    Assembled =>
        LET merged == MergeDistributions(distributions)
            changed == {i \in 1..Len(merged) : Distributions[i] # merged[i]}
            pages == {i \in 1..Len(merged) :
                         /\ Contains(merged[i]["dcat:accessURL"], "kaggle.com")
                         /\ merged[i]["dcat:mediaType"] = "text/html"}
        IN  /\ Len(Distributions) = Len(merged)
            /\ Cardinality(changed) <= 1
            /\ \A i \in changed :
                  /\ site_hint = "kaggle"
                  /\ i \in pages /\ \A j \in pages : i <= j
                  /\ \A j \in 1..Len(merged) :
                        /\ merged[j]["dcat:mediaType"] # "text/csv"
                        /\ Upper(merged[j]["dct:format"]) # "CSV"
            /\ (site_hint = "kaggle" /\ Len(merged) = 1 /\ pages = {1})
                  => /\ Distributions[1]["dcat:accessURL"] = merged[1]["dcat:accessURL"]
                     /\ Distributions[1]["dcat:mediaType"] = "text/csv"
                     /\ Distributions[1]["dct:format"] = "CSV"

\* A kaggle page on which only the page itself was discovered has the one
\* distribution of its record relabelled.
KaggleCsvPromotionWitness ==
    /\ pc = "done"
    /\ site_hint = "kaggle"
    /\ ~soup.none
    /\ distributions = <<Dist(url, "text/html", "HTML")>>
    /\ Distributions = <<Dist(url, "text/csv", "CSV")>>

\* C7: no two distributions of a record have the same access URL.
AccessUrlsDistinct ==
    Assembled =>
        \A i, j \in 1..Len(Distributions) :
            i # j => Distributions[i]["dcat:accessURL"] # Distributions[j]["dcat:accessURL"]

\* Two anchors of a page resolve to one URL, which the scan of the site
\* variant reports as well, and the record has the one distribution.
AccessUrlsDistinctWitness ==
    /\ pc = "done"
    /\ ~soup.none
    /\ Len(find_all_a(soup)) = 2
    /\ urljoin(url, Strip(find_all_a(soup)[1].attrs["href"]))
         = urljoin(url, Strip(find_all_a(soup)[2].attrs["href"]))
    /\ Len(distributions) >= 2
    /\ Len(Distributions) = 1

\* The text of the string literal that opens before position i of line s:
\* a backslash gives the character after it, a double quote ends the literal.
RECURSIVE ReadLiteral(_, _)
ReadLiteral(s, i) ==
    IF i > Len(s) \/ Char(s, i) = "\"" THEN ""
    ELSE IF Char(s, i) = "\\" /\ i < Len(s) THEN Char(s, i + 1) \o ReadLiteral(s, i + 2)
    ELSE Char(s, i) \o ReadLiteral(s, i + 1)

\* C8: the title literal of the serialized record, read back with its
\* escapes undone, is the title of the record.
TitleLiteralRoundTrips ==
    pc = "done" =>
        /\ StartsWithAt(ttl[6], 1, "    dct:title \"")
        /\ ReadLiteral(ttl[6], Len("    dct:title \"") + 1) = Dataset(dcat)["dct:title"]

\* URLs without a file extension: a host alone, or a host and a path whose
\* last segment has no dot.
NoExtensionUrls == {h \o p : h \in Hosts, p \in {"", "/", "/d"}}

\* C9: the classifier returns for every URL, an empty or missing one
\* included, and gives a URL without a file extension text/html and HTML.
ClassifierTotalHtmlDefault ==
    /\ cf_pc # "raised"
    /\ (cf_pc = "done" /\ cf_url \in NoExtensionUrls)
          => (cf_media = "text/html" /\ cf_format = "HTML")

\* C10: an optional key of the record has a non-empty value, and a record
\* from metadata without a date-like key has neither dct:issued nor
\* dct:modified.
OptionalKeysNonEmpty ==
    Assembled =>
        LET ds == Dataset(dcat)
        IN  /\ \A k \in {"dct:issued", "dct:modified", "dct:license"} :
                  k \in DOMAIN ds => (ds[k] # None /\ ds[k] # "")
            /\ "dcat:keyword" \in DOMAIN ds => Len(ds["dcat:keyword"]) > 0
            /\ DOMAIN FirstMetadata \cap DateKeys = {}
                  => DOMAIN ds \cap {"dct:issued", "dct:modified"} = {}

\* A record from metadata that holds a licence and no date-like key: the
\* licence is in the record, the dates are not.
OptionalKeysNonEmptyWitness ==
    /\ pc = "done"
    /\ DOMAIN FirstMetadata \cap DateKeys = {}
    /\ "License" \in DOMAIN FirstMetadata
    /\ "dct:license" \in DOMAIN Dataset(dcat)
    /\ "dct:issued" \notin DOMAIN Dataset(dcat)

\* The try_set_meta calls of the first p passes of the request, and the
\* calls made so far, in the order made.
RECURSIVE CallsOfPasses(_)
CallsOfPasses(p) ==
    IF p = 0 THEN <<>>
    ELSE CallsOfPasses(p - 1) \o PassCalls(Passes(source)[p], rs_page, source)

CallsMade ==
    IF rs_pass = 0 THEN <<>> ELSE CallsOfPasses(rs_pass - 1) \o SubSeq(rs_calls, 1, rs_i - 1)

\* The calls of made for key with a value, and those of them whose value
\* is not empty once stripped.
MadeFor(made, key) == {i \in 1..Len(made) : made[i].key = key /\ Truthy(made[i].value)}
NonEmptyFor(made, key) == {i \in MadeFor(made, key) : Strip(made[i].value) # ""}

Least(S) == CHOOSE k \in S : \A j \in S : k <= j

\* C11: at every point of the metadata scan a key of metadata_dict holds
\* the stripped value of the first call made for it whose value was not
\* empty, whatever later calls of the same or of a later pass brought; a key
\* for which only empty values came holds the empty string, and no other key
\* is there.
FirstNonEmptyValueKept ==
    \A made \in {CallsMade} :
        /\ DOMAIN metadata_dict = {key \in {made[i].key : i \in 1..Len(made)} :
                                       Truthy(key) /\ MadeFor(made, key) # {}}
        /\ \A key \in DOMAIN metadata_dict :
              metadata_dict[key] = IF NonEmptyFor(made, key) = {} THEN ""
                                   ELSE Strip(made[Least(NonEmptyFor(made, key))].value)

\* Two calls with different non-empty values were made for a key, and the
\* key holds the value of the earlier one.
FirstNonEmptyValueKeptWitness ==
    \E made \in {CallsMade} :
        \E key \in DOMAIN metadata_dict :
            \E i \in NonEmptyFor(made, key), j \in NonEmptyFor(made, key) :
                /\ i < j
                /\ Strip(made[i].value) # Strip(made[j].value)
                /\ metadata_dict[key] = Strip(made[i].value)

\* The passes the variant stands for: the kaggle template passes, the aikosh
\* metadata-container pass with the license discovery, or the license
\* discovery alone.
PassesOfVariant(variant) ==
    CASE variant = "kaggle" -> <<"strong", "rows", "ld", "anchors", "labels">>
      [] variant = "aikosh" -> <<"blocks", "ld", "anchors">>
      [] variant = "unknown" -> <<"ld", "anchors">>

\* C13: when a request is done, the variant convert_to_dcat_dynamic used is
\* one of aikosh, kaggle and unknown, and the passes run_scrapper ran are
\* those of that variant; for unknown no template pass ran.
OneVariantDrivesBothStages ==
    rs_pc = "done" =>
        /\ rs_site \in {"aikosh", "kaggle", "unknown"}
        /\ Passes(source) = PassesOfVariant(rs_site)

\* The license fields of a linked-data value in depth-first order: the
\* field of an object before those of its values, the members of a list in
\* their order.
RECURSIVE LicenseFields(_)
RECURSIVE LicenseFieldsOfItems(_, _)
LicenseFieldsOfItems(items, k) ==
    IF k > Len(items) THEN <<>>
    ELSE LicenseFields(items[k].v) \o LicenseFieldsOfItems(items, k + 1)

LicenseFields(o) ==
    IF o.t = "obj"
    THEN (IF JTruthy(JGet(o, "license")) THEN <<JGet(o, "license")>> ELSE <<>>)
         \o LicenseFieldsOfItems(o.items, 1)
    ELSE IF o.t = "list" THEN LicenseFieldsOfItems(o.items, 1)
    ELSE <<>>

\* The value the license field stands for: the string, or the name, else
\* the @id, else the url of the object; None for anything else.
LicenseValue(field) ==
    IF field.t = "str" THEN field.s
    ELSE IF field.t = "obj" /\ LicenseLabel(field).t = "str" THEN LicenseLabel(field).s
    ELSE None

\* The scripts of the page in which the linked-data pass finds a license
\* field.
ScriptsWithLicense == {i \in 1..Len(rs_page.ld) : LicenseFields(rs_page.ld[i]) # <<>>}

\* No other pass of the strategy makes a call for the License key.
OnlyLinkedDataLicense ==
    \A p \in 1..Len(Passes(source)) :
        Passes(source)[p] # "ld" =>
            \A c \in Range(PassCalls(Passes(source)[p], rs_page, source)) : c.key # "License"

\* C14: when only the linked-data pass finds a license, the License key
\* holds, stripped, the first license field in depth-first order of the first
\* script with one: the string itself, or the name, else @id, else url of an
\* object.
LinkedDataLicenseValue ==
    (rs_pc = "done" /\ OnlyLinkedDataLicense /\ ScriptsWithLicense # {}) =>
        \A v \in {LicenseValue(LicenseFields(rs_page.ld[Least(ScriptsWithLicense)])[1])} :
            (Truthy(v) /\ Strip(v) # "") => Get(metadata_dict, "License") = Strip(v)

\* C12: a second call of convert_to_dcat_dynamic with the result, page URL,
\* markup tree and variant of the first returns the record the first
\* returned: the same keys, the same values, the distributions in the same
\* order.
SecondCallSameRecord == (calls = 2 /\ Assembled) => dcat = first_dcat

\* A second call has returned a record of a kaggle page on which
\* _explore_kaggle_for_files collected two URLs.
SecondCallSameRecordWitness ==
    /\ calls = 2
    /\ Assembled
    /\ site_hint = "kaggle"
    /\ ~soup.none
    /\ \E files \in explore_kaggle_for_files(soup, url) : Len(files) >= 2
    /\ Len(Distributions) >= 2

\* The places in keys of the keys whose value in md is not empty and
\* normalizes to a date, or to a year.
WithDate(md, keys) ==
    {k \in 1..Len(keys) : /\ Truthy(Get(md, keys[k]))
                          /\ Truthy(parse_date_from_metadata(md[keys[k]]))}
WithYear(md, keys) ==
    {k \in 1..Len(keys) : /\ Truthy(Get(md, keys[k]))
                          /\ Truthy(extract_year_from_string(md[keys[k]]))}

\* The date of the key of highest priority in keys, a bare year made the
\* first of January when padded; and the first of January of the year of the
\* key of highest priority. None when no key has one.
DateOfBest(md, keys, padded) ==
    IF WithDate(md, keys) = {} THEN None
    ELSE IF padded THEN FullDate(parse_date_from_metadata(md[keys[Least(WithDate(md, keys))]]))
    ELSE parse_date_from_metadata(md[keys[Least(WithDate(md, keys))]])
YearOfBest(md, keys) ==
    IF WithYear(md, keys) = {} THEN None
    ELSE extract_year_from_string(md[keys[Least(WithYear(md, keys))]]) \o "-01-01"

\* C15: in a record assembled from a metadata mapping each date comes from
\* the key of highest priority in its list whose value is not empty and
\* normalizes. For aikosh, issued is the date of the best key of the date
\* list with a bare year padded, and the year list counts only when the date
\* list gives nothing; otherwise modified is the date of the best key of the
\* date list and issued the first of January of the year of the best key of
\* the year list.
DatesFromBestKey ==
    (Assembled /\ MetadataList(result_json) # <<>>) =>
        IF site_hint = "aikosh"
        THEN Get(Dataset(dcat), "dct:issued")
                 = Or(DateOfBest(FirstMetadata, aikosh_date_keys, TRUE),
                      YearOfBest(FirstMetadata, aikosh_year_keys))
        ELSE /\ Get(Dataset(dcat), "dct:modified")
                    = DateOfBest(FirstMetadata, default_date_keys, FALSE)
             /\ Get(Dataset(dcat), "dct:issued") = YearOfBest(FirstMetadata, default_year_keys)

\* A record is assembled from a mapping in which two keys of a date list
\* hold different dates, and one in which the best key holds a value that
\* does not normalize.
DatesFromBestKeyWitness ==
    /\ Assembled
    /\ MetadataList(result_json) # <<>>
    /\ \E keys \in {IF site_hint = "aikosh" THEN aikosh_date_keys ELSE default_date_keys} :
          \E i \in WithDate(FirstMetadata, keys), j \in 1..Len(keys) :
              /\ i < j
              /\ Truthy(Get(FirstMetadata, keys[j]))
              /\ parse_date_from_metadata(FirstMetadata[keys[j]])
                     # parse_date_from_metadata(FirstMetadata[keys[i]])
              /\ Truthy(parse_date_from_metadata(FirstMetadata[keys[j]]))

\* C16: the record assembled for a page with a URL has at least one
\* distribution, and each distribution has an access URL, a media type and a
\* format that are not empty, with or without a markup tree and whatever the
\* variant.
EveryDistributionComplete ==
    (Assembled /\ Truthy(url)) =>
        /\ Len(Distributions) >= 1
        /\ \A i \in 1..Len(Distributions) :
              \A key \in {"dcat:accessURL", "dcat:mediaType", "dct:format"} :
                  Truthy(Get(Distributions[i], key))

\* A record is assembled for a page with a tree in which neither scan found
\* a file: its one distribution is the page.
EveryDistributionCompleteWitness ==
    /\ Assembled
    /\ Truthy(url)
    /\ ~soup.none
    /\ SiteSpecific = <<>>
    /\ DOMAIN found = {}
    /\ Len(Distributions) = 1
    /\ Distributions[1]["dcat:accessURL"] = url

====
